---- MODULE Spec2Model ----
(***************************************************************************)
(* A model of the rslogo tree-walking evaluator (src/src/evaluator.rs) and *)
(* of the turtle it drives (src/src/turtle.rs).  The recursive function    *)
(* evaluate_ast is unfolded into a machine with an explicit control stack; *)
(* evaluate_expression is a recursive operator over the scope stack and    *)
(* the turtle.                                                             *)
(***************************************************************************)
EXTENDS Integers, Sequences, FiniteSets, TLC

(***************************************************************************)
(* 32-bit signed integers (ExpressionValue.integer_value : Option<i32>).   *)
(***************************************************************************)
MaxI32 == 2147483647
MinI32 == -MaxI32 - 1

AddOverflows(a, b) ==
    \/ b > 0 /\ a > MaxI32 - b
    \/ b < 0 /\ a < MinI32 - b

SubOverflows(a, b) ==
    \/ b < 0 /\ a > MaxI32 + b
    \/ b > 0 /\ a < MinI32 + b

\* a + b modulo 2^32, computed without leaving the 32-bit range
WrappingAdd(a, b) ==
    IF ~AddOverflows(a, b) THEN a + b
    ELSE IF b > 0 THEN (a - MaxI32 - 1) + (b - MaxI32 - 1)
    ELSE (a + MaxI32 + 1) + (b + MaxI32 + 1)

\* a - b modulo 2^32
WrappingSub(a, b) ==
    IF ~SubOverflows(a, b) THEN a - b
    ELSE IF b < 0 THEN (a - MaxI32 - 1) - (b + MaxI32 + 1)
    ELSE (a + MaxI32 + 1) - (b - MaxI32 - 1)

\* a * b modulo 2^32 by binary double-and-add on the multiplier
RECURSIVE WrappingMul(_, _)
WrappingMul(a, b) ==
    IF b = 0 THEN 0
    ELSE IF b = MinI32 THEN (IF a % 2 = 0 THEN 0 ELSE MinI32)
    ELSE IF b < 0 THEN WrappingSub(0, WrappingMul(a, -b))
    ELSE IF b % 2 = 1 THEN WrappingAdd(a, WrappingMul(WrappingAdd(a, a), b \div 2))
    ELSE WrappingMul(WrappingAdd(a, a), b \div 2)

Abs(n) == IF n < 0 THEN -n ELSE n

MulOverflows(a, b) ==
    IF a = 0 \/ b = 0 THEN FALSE
    ELSE IF a = MinI32 THEN b # 1
    ELSE IF b = MinI32 THEN a # 1
    ELSE IF (a > 0) = (b > 0) THEN Abs(a) > MaxI32 \div Abs(b)
    ELSE  \* the product is negative: -|a||b| >= MinI32
         /\ Abs(a) > MaxI32 \div Abs(b)
         /\ ~(Abs(a) = (MaxI32 \div Abs(b)) + 1 /\ (MaxI32 % Abs(b)) = Abs(b) - 1)

\* a quotient rounded toward minus infinity
DivByPositiveFloor(a, b) == a \div b

\* Rust's / on i32 for a positive divisor: quotient truncated toward zero
DivByPositive(a, b) ==
    IF a >= 0 \/ a % b = 0 THEN a \div b ELSE (a \div b) + 1

\* Rust's / on i32 (b # 0 and (a, b) # (MinI32, -1))
NativeDiv(a, b) ==
    IF b > 0 THEN DivByPositive(a, b)
    ELSE IF b = MinI32 THEN (IF a = MinI32 THEN 1 ELSE 0)
    ELSE -DivByPositive(a, -b)

\* Rust's % on i32 for a positive divisor: the remainder has the sign of
\* the dividend
RemByPositive(a, b) ==
    IF a >= 0 \/ a % b = 0 THEN a % b ELSE (a % b) - b

\* Rust's % on i32 (b # 0 and (a, b) # (MinI32, -1))
NativeRem(a, b) ==
    IF b > 0 THEN RemByPositive(a, b)
    ELSE IF b = MinI32 THEN (IF a = MinI32 THEN 0 ELSE a)
    ELSE RemByPositive(a, -b)

DivOverflows(a, b) == a = MinI32 /\ b = -1

(***************************************************************************)
(* The AST (src/src/constants.rs).  An Identifier is modelled by its name  *)
(* (field .0), the only field the evaluator reads.                         *)
(***************************************************************************)
IntegerLiteral(n)    == [tag |-> "IntegerLiteral", int |-> n]
StringLiteral(s)     == [tag |-> "StringLiteral", str |-> s]
VariableReference(n) == [tag |-> "VariableReference", name |-> n]
QueryXCor            == [tag |-> "QueryXCor"]
QueryYCor            == [tag |-> "QueryYCor"]
QueryHeading         == [tag |-> "QueryHeading"]
QueryColor           == [tag |-> "QueryColor"]
Binary(op, l, r)     == [tag |-> op, lhs |-> l, rhs |-> r]

BinaryTags ==
    {"Addition", "Subtraction", "Multiplication", "Division", "Modulo",
     "And", "Or", "Equals", "NotEquals", "GreaterThan", "LessThan"}

PenUp                == [stmt |-> "PenUp"]
PenDown              == [stmt |-> "PenDown"]
Forward(e)           == [stmt |-> "Forward", expr |-> e]
Back(e)              == [stmt |-> "Back", expr |-> e]
Left(e)              == [stmt |-> "Left", expr |-> e]
Right(e)             == [stmt |-> "Right", expr |-> e]
Turn(e)              == [stmt |-> "Turn", expr |-> e]
SetX(e)              == [stmt |-> "SetX", expr |-> e]
SetY(e)              == [stmt |-> "SetY", expr |-> e]
SetHeading(e)        == [stmt |-> "SetHeading", expr |-> e]
SetPenColor(e)       == [stmt |-> "SetPenColor", expr |-> e]
Make(id, e)          == [stmt |-> "Make", id |-> id, expr |-> e]
AddAssign(id, e)     == [stmt |-> "AddAssign", id |-> id, expr |-> e]
If(e, b)             == [stmt |-> "If", expr |-> e, block |-> b]
While(e, b)          == [stmt |-> "While", expr |-> e, block |-> b]
Repeat(e, b)         == [stmt |-> "Repeat", expr |-> e, block |-> b]
ProcedureDefinition(n, ps, b) ==
    [stmt |-> "ProcedureDefinition", name |-> n, parameters |-> ps, body |-> b]
ProcedureCall(n, as) ==
    [stmt |-> "ProcedureCall", name |-> n, arguments |-> as]

MotionStmts == {"Forward", "Back", "Left", "Right", "Turn"}
SetterStmts == {"SetX", "SetY", "SetHeading", "SetPenColor"}

(***************************************************************************)
(* ExpressionValue.  A fatal outcome of an evaluation (print_error with    *)
(* exit = true, or a Rust panic) is carried as a value of type "fatal":    *)
(* how is "exit" or "panic", error the message.                            *)
(***************************************************************************)
IntegerValue(n) == [value_type |-> "integer", integer_value |-> n]
StringValue(s)  == [value_type |-> "string", string_value |-> s]
Fatal(how, msg) == [value_type |-> "fatal", how |-> how, error |-> msg]
NoValue         == [value_type |-> "none"]

IsFatal(v) == v.value_type = "fatal"

\* print_error(message, .., true): prints and calls std::process::exit(1)
print_error(message) == Fatal("exit", message)

\* Option::unwrap on None
UnwrapNone == Fatal("panic", "called Option::unwrap() on a None value")

\* the characters the modelled texts are written in
UpperCaseChars == "ABCDEFGHIJKLMNOPQRSTUVWXYZ"
LowerCaseChars == "abcdefghijklmnopqrstuvwxyz"
DigitChars == "0123456789"
WordChars == UpperCaseChars \o LowerCaseChars \o DigitChars \o "_"

\* slices of a str
Take(s, n) == SubSeq(s, 1, n)
Drop(s, n) == SubSeq(s, n + 1, Len(s))
CharAt(s, i) == SubSeq(s, i, i)

\* char::to_lowercase
CharsOf(s) == {CharAt(s, i) : i \in 1..Len(s)}
LowerOf ==
    [c \in CharsOf(UpperCaseChars) |->
        CharAt(LowerCaseChars,
               CHOOSE i \in 1..Len(UpperCaseChars) : CharAt(UpperCaseChars, i) = c)]
LowerChar(c) == IF c \in DOMAIN LowerOf THEN LowerOf[c] ELSE c

\* str::to_lowercase
RECURSIVE to_lowercase(_)
to_lowercase(s) ==
    IF s = "" THEN "" ELSE LowerChar(CharAt(s, 1)) \o to_lowercase(Drop(s, 1))

(***************************************************************************)
(* ProgramState::get and get_error_handled on the scope stack, a sequence  *)
(* of [name, value] pairs with the most recent push last.                  *)
(***************************************************************************)
\* a lookup that scans from the bottom of the stack and stops at the oldest
\* entry of the name
FindOldest(stk, name) ==
    LET S == {i \in 1..Len(stk) : stk[i].name = name} IN
    IF S = {} THEN 0 ELSE CHOOSE i \in S : \A j \in S : i <= j

\* index of the entry get/set stop at: the scan runs from the top of the
\* stack downwards (iter().rev()); 0 when no entry has the name
RECURSIVE FindFrom(_, _, _)
FindFrom(stk, name, i) ==
    IF i = 0 THEN 0
    ELSE IF stk[i].name = name THEN i
    ELSE FindFrom(stk, name, i - 1)

Find(stk, name) == FindFrom(stk, name, Len(stk))

get_error_handled(stk, name) ==
    LET i == Find(stk, name) IN
    IF i = 0 THEN print_error("variable not found")
    ELSE IF stk[i].value = NoValue THEN print_error("variable not initialised")
    ELSE stk[i].value

\* an update that pushes a fresh entry instead of replacing the found one
set_push(stk, name, value) == Append(stk, [name |-> name, value |-> value])

\* ProgramState::set
set(stk, name, value) ==
    LET i == Find(stk, name) IN
    IF i = 0 THEN Append(stk, [name |-> name, value |-> value])
    ELSE [stk EXCEPT ![i].value = value]

\* ProgramState::push
push(stk, name, value) == Append(stk, [name |-> name, value |-> value])

\* ProgramState::pop (Vec::pop on an empty vector is a no-op)
pop(stk) == IF Len(stk) = 0 THEN stk ELSE SubSeq(stk, 1, Len(stk) - 1)

(***************************************************************************)
(* The parser (src/src/parser.rs).  The text of a program is a string; a   *)
(* parser takes the text left to parse and yields                          *)
(*   [res "ok"]   the text left after it and the value parsed,             *)
(*   [res "err"]  nom::Err::Error, on which alt and many0 go on, or        *)
(*   [res "exit"] the fatal error of a print_error that ended the process. *)
(***************************************************************************)
Ok(rest, value) == [res |-> "ok", rest |-> rest, value |-> value]
Err == [res |-> "err"]
Exit(fatal) == [res |-> "exit", fatal |-> fatal]

\* the ? operator and the sequence combinators: the next parser runs on the
\* result of a parser that succeeded
AndThen(result, next(_)) == IF result.res = "ok" THEN next(result) ELSE result

\* nom::branch::alt: the alternative runs when the parser before it failed
\* with Err::Error
OrElse(result, alternative) == IF result.res = "err" THEN alternative ELSE result

\* nom::branch::alt over the results of its parsers in their order: the
\* result of the first parser that did not fail with Err::Error
alt(results) ==
    IF \A k \in DOMAIN results : results[k].res = "err" THEN Err
    ELSE results[CHOOSE k \in DOMAIN results :
                    /\ results[k].res # "err"
                    /\ \A j \in 1..(k - 1) : results[j].res = "err"]

\* the text split after its first n characters
SplitAt(s, n) == Ok(Drop(s, n), Take(s, n))

\* the complete parsers that take one character or more
NotEmpty(result) == IF result.value = "" THEN Err ELSE result

\* char::is_alphanumeric || c == '_', char::is_ascii_digit and the characters
\* of multispace, on the ASCII characters the modelled texts are written in
WordCharSet == CharsOf(WordChars)
DigitCharSet == CharsOf(DigitChars)
IsAlphanumericOrUnderscore(c) == c \in WordCharSet
IsDigit(c) == c \in DigitCharSet
IsMultispace(c) == c \in {" ", "\t", "\r", "\n"}
IsLineEnd(c) == c \in {"\r", "\n"}

\* the number of leading characters of s that are in a class
LeadingLen(s, InClass(_)) ==
    (CHOOSE i \in 1..(Len(s) + 1) :
        /\ i > Len(s) \/ ~InClass(CharAt(s, i))
        /\ \A j \in 1..(i - 1) : InClass(CharAt(s, j))) - 1

NotLineEnd(c) == ~IsLineEnd(c)
WordLen(s) == LeadingLen(s, IsAlphanumericOrUnderscore)
DigitLen(s) == LeadingLen(s, IsDigit)
SpaceLen(s) == LeadingLen(s, IsMultispace)
LineLen(s) == LeadingLen(s, NotLineEnd)

\* nom::bytes::complete::tag (nom_tag) and tag_no_case
nom_tag(t, s) ==
    IF Len(s) >= Len(t) /\ Take(s, Len(t)) = t THEN SplitAt(s, Len(t)) ELSE Err

tag_no_case(t, s) ==
    IF Len(s) >= Len(t) /\ to_lowercase(Take(s, Len(t))) = to_lowercase(t)
    THEN SplitAt(s, Len(t)) ELSE Err

\* opt(alt((tag("\""), tag(":")))), opt(char('-')): one of the characters,
\* or nothing
opt_one_of(characters, s) ==
    IF s # "" /\ CharAt(s, 1) \in characters THEN SplitAt(s, 1) ELSE SplitAt(s, 0)

\* take_while1(|c| c.is_alphanumeric() || c == '_')
take_word1(s) == NotEmpty(SplitAt(s, WordLen(s)))

\* nom::character::complete::digit1, multispace0, multispace1
digit1(s) == NotEmpty(SplitAt(s, DigitLen(s)))
multispace0(s) == SplitAt(s, SpaceLen(s))
multispace1(s) == NotEmpty(SplitAt(s, SpaceLen(s)))

\* nom::character::complete::not_line_ending: the text before the first
\* "\n" or "\r\n"; a "\r" that no "\n" follows is an error
line_before(s, n) ==
    IF n < Len(s) /\ CharAt(s, n + 1) = "\r" /\ SubSeq(s, n + 1, n + 2) # "\r\n"
    THEN Err
    ELSE SplitAt(s, n)

not_line_ending(s) == line_before(s, LineLen(s))

\* nom::character::complete::line_ending
line_ending(s) == OrElse(nom_tag("\n", s), nom_tag("\r\n", s))

\* nom::bytes::complete::take_until: the text before the first occurrence of
\* pattern
FindSubstring(pattern, s) ==
    IF \A i \in 1..(Len(s) - Len(pattern) + 1) :
          SubSeq(s, i, i + Len(pattern) - 1) # pattern
    THEN 0
    ELSE CHOOSE i \in 1..(Len(s) - Len(pattern) + 1) :
            /\ SubSeq(s, i, i + Len(pattern) - 1) = pattern
            /\ \A j \in 1..(i - 1) : SubSeq(s, j, j + Len(pattern) - 1) # pattern

text_before(s, i) == IF i = 0 THEN Err ELSE SplitAt(s, i - 1)

take_until(pattern, s) == text_before(s, FindSubstring(pattern, s))

\* str::trim
RECURSIVE trim_end(_)
trim_end(s) ==
    IF s # "" /\ IsMultispace(CharAt(s, Len(s))) THEN trim_end(Take(s, Len(s) - 1))
    ELSE s
trim(s) == trim_end(Drop(s, SpaceLen(s)))

\* parse_identifier: only the name (field .0) is kept
parse_identifier(s) == take_word1(opt_one_of({"\"", ":"}, s).rest)

\* str::parse::<i32> of a sign and a string of digits: the digits are
\* accumulated on the side of the sign; a value outside the i32 range is an
\* overflow
DigitValue(c) == CHOOSE d \in 0..9 : CharAt(DigitChars, d + 1) = c

RECURSIVE parse_i32_from(_, _, _, _)
parse_i32_digit(digits, i, negative, acc, digit) ==
    IF negative
    THEN IF acc < -((MaxI32 - (IF digit = 0 THEN 0 ELSE digit - 1)) \div 10)
         THEN [overflow |-> TRUE, value |-> 0]
         ELSE parse_i32_from(digits, i + 1, negative, acc * 10 - digit)
    ELSE IF acc > (MaxI32 - digit) \div 10
         THEN [overflow |-> TRUE, value |-> 0]
         ELSE parse_i32_from(digits, i + 1, negative, acc * 10 + digit)

parse_i32_from(digits, i, negative, acc) ==
    IF i > Len(digits) THEN [overflow |-> FALSE, value |-> acc]
    ELSE parse_i32_digit(digits, i, negative, acc, DigitValue(CharAt(digits, i)))

\* a parse_integer that fails with Err::Error on a value out of range, so
\* that alt goes on to the next terminal
integer_literal_backtrack(rest, number) ==
    IF number.overflow THEN Err ELSE Ok(rest, IntegerLiteral(number.value))

\* the match on number_str.parse::<i32>() in parse_integer
integer_literal(rest, number) ==
    IF number.overflow THEN Exit(print_error("invalid integer"))
    ELSE Ok(rest, IntegerLiteral(number.value))

\* parse_integer
parse_integer(s) ==
    AndThen(nom_tag("\"", s), LAMBDA quote :
    AndThen(opt_one_of({"-"}, quote.rest), LAMBDA sign :
    AndThen(digit1(sign.rest), LAMBDA digits :
    integer_literal(digits.rest,
                    parse_i32_from(digits.value, 1, sign.value = "-", 0)))))

\* parse_string
parse_string(s) ==
    AndThen(nom_tag("\"", s), LAMBDA quote :
    AndThen(take_word1(quote.rest), LAMBDA string_content :
    Ok(string_content.rest, StringLiteral(string_content.value))))

\* parse_variable
parse_variable(s) ==
    AndThen(nom_tag(":", s), LAMBDA colon :
    AndThen(take_word1(colon.rest), LAMBDA name :
    Ok(name.rest, VariableReference(name.value))))

\* parse_xcor, parse_ycor, parse_heading, parse_color
parse_query(keyword, query, s) ==
    AndThen(tag_no_case(keyword, s), LAMBDA word : Ok(word.rest, query))

\* parse_queries
parse_queries(s) ==
    OrElse(parse_query("xcor", QueryXCor, s),
    OrElse(parse_query("ycor", QueryYCor, s),
    OrElse(parse_query("heading", QueryHeading, s),
           parse_query("color", QueryColor, s))))

\* the operator tokens of parse_binary_ops, in the order alt tries them
BinaryOperators ==
    << [token |-> "+", tag |-> "Addition"],
       [token |-> "-", tag |-> "Subtraction"],
       [token |-> "*", tag |-> "Multiplication"],
       [token |-> "/", tag |-> "Division"],
       [token |-> "%", tag |-> "Modulo"],
       [token |-> "EQ", tag |-> "Equals"],
       [token |-> "NE", tag |-> "NotEquals"],
       [token |-> "GT", tag |-> "GreaterThan"],
       [token |-> "LT", tag |-> "LessThan"],
       [token |-> "AND", tag |-> "And"],
       [token |-> "OR", tag |-> "Or"] >>

RECURSIVE parse_expression(_)

\* a binary form that stores its operands in the opposite order
parse_binary_swapped(operator, s) ==
    AndThen(nom_tag(operator.token, s), LAMBDA token :
    AndThen(multispace1(token.rest), LAMBDA space :
    AndThen(parse_expression(space.rest), LAMBDA left :
    AndThen(multispace1(left.rest), LAMBDA between :
    AndThen(parse_expression(between.rest), LAMBDA right :
    Ok(right.rest, Binary(operator.tag, right.value, left.value)))))))

\* parse_addition .. parse_or: the token, multispace1, an expression,
\* multispace1, an expression
parse_binary(operator, s) ==
    AndThen(nom_tag(operator.token, s), LAMBDA token :
    AndThen(multispace1(token.rest), LAMBDA space :
    AndThen(parse_expression(space.rest), LAMBDA left :
    AndThen(multispace1(left.rest), LAMBDA between :
    AndThen(parse_expression(between.rest), LAMBDA right :
    Ok(right.rest, Binary(operator.tag, left.value, right.value)))))))

\* parse_binary_ops
parse_binary_ops(s) ==
    alt([k \in DOMAIN BinaryOperators |-> parse_binary(BinaryOperators[k], s)])

\* parse_parentheses
parse_parentheses(s) ==
    AndThen(nom_tag("(", s), LAMBDA opening :
    AndThen(parse_expression(opening.rest), LAMBDA inner :
    AndThen(nom_tag(")", inner.rest), LAMBDA closing :
    Ok(closing.rest, inner.value))))

\* parse_value
parse_value(s) ==
    OrElse(parse_parentheses(s),
    OrElse(parse_queries(s),
    OrElse(parse_integer(s),
    OrElse(parse_variable(s),
           parse_string(s)))))

\* parse_expression: the binary operators before the terminal values
parse_expression(s) == OrElse(parse_binary_ops(s), parse_value(s))

\* parse_arguments: many0(preceded(multispace1, parse_expression)), with the
\* expressions collected so far
RECURSIVE parse_arguments_from(_, _)
arguments_next(s, collected, expression) ==
    IF expression.res = "exit" THEN expression
    ELSE IF expression.res = "err" THEN Ok(s, collected)
    ELSE parse_arguments_from(expression.rest, Append(collected, expression.value))

parse_arguments_from(s, collected) ==
    arguments_next(s, collected,
        AndThen(multispace1(s), LAMBDA space : parse_expression(space.rest)))

parse_arguments(s) == parse_arguments_from(s, <<>>)

\* a comment that is its two slashes only
parse_comment_slashes(s) ==
    AndThen(nom_tag("//", s), LAMBDA slashes : Ok(slashes.rest, NoValue))

\* parse_comment: "//", then the rest of the line and its line ending
parse_comment(s) ==
    AndThen(nom_tag("//", s), LAMBDA slashes :
    AndThen(not_line_ending(slashes.rest), LAMBDA line :
    AndThen(line_ending(line.rest), LAMBDA ending :
    Ok(ending.rest, NoValue))))

\* check_keywords: the keywords in the order alt tries them
Keywords ==
    <<"penup", "pendown", "forward", "back", "left", "right", "turn",
      "setx", "sety", "setheading", "setpencolor", "make", "addassign",
      "if", "while", "repeat", "to", "end">>

check_keywords(s) ==
    alt([k \in DOMAIN Keywords |-> tag_no_case(Keywords[k], s)])

\* a count check that only rejects missing arguments
argument_count_short(args_len, expected) == args_len < expected

\* the count checks of check_errors: args_len != expected
argument_count_wrong(args_len, expected) == args_len # expected

\* the for loop of check_errors over the arguments: a StringLiteral among them
has_string_literal(arguments) ==
    \E i \in 1..Len(arguments) : arguments[i].tag = "StringLiteral"

\* the match of check_errors on the keyword in lower case: the fatal error
\* of the first check that fails
check_arguments(s, keyword, arguments) ==
    IF keyword \in {"penup", "pendown"}
    THEN IF argument_count_wrong(Len(arguments), 0)
         THEN Exit(print_error("incorrect argument count"))
         ELSE Ok(s, NoValue)
    ELSE IF keyword \in {"forward", "back", "left", "right", "turn", "setx",
                         "sety", "setheading", "setpencolor",
                         "if", "while", "repeat"}
    THEN IF argument_count_wrong(Len(arguments), 1)
         THEN Exit(print_error("incorrect argument count"))
         ELSE IF has_string_literal(arguments)
         THEN Exit(print_error("incorrect argument type"))
         ELSE Ok(s, NoValue)
    ELSE IF keyword \in {"make", "addassign"}
    THEN IF argument_count_wrong(Len(arguments), 2)
         THEN Exit(print_error("incorrect argument count"))
         ELSE Ok(s, NoValue)
    ELSE Ok(s, NoValue)

\* check_errors: the keyword the text begins with and the arguments that
\* follow it on its line
check_errors(s) ==
    AndThen(check_keywords(s), LAMBDA keyword :
    AndThen(not_line_ending(keyword.rest), LAMBDA line :
    AndThen(parse_arguments(line.value), LAMBDA arguments :
    check_arguments(s, to_lowercase(keyword.value), arguments.value))))

\* the alternatives of parse_statement in the order alt tries them, by the
\* form of their parser
StatementParsers ==
    << [form |-> "pen", keyword |-> "penup", stmt |-> "PenUp"],
       [form |-> "pen", keyword |-> "pendown", stmt |-> "PenDown"],
       [form |-> "operand", keyword |-> "forward", stmt |-> "Forward"],
       [form |-> "operand", keyword |-> "back", stmt |-> "Back"],
       [form |-> "operand", keyword |-> "left", stmt |-> "Left"],
       [form |-> "operand", keyword |-> "right", stmt |-> "Right"],
       [form |-> "operand", keyword |-> "turn", stmt |-> "Turn"],
       [form |-> "operand", keyword |-> "setx", stmt |-> "SetX"],
       [form |-> "operand", keyword |-> "sety", stmt |-> "SetY"],
       [form |-> "operand", keyword |-> "setheading", stmt |-> "SetHeading"],
       [form |-> "operand", keyword |-> "setpencolor", stmt |-> "SetPenColor"],
       [form |-> "assignment", keyword |-> "make", stmt |-> "Make"],
       [form |-> "assignment", keyword |-> "addassign", stmt |-> "AddAssign"],
       [form |-> "control", keyword |-> "if", stmt |-> "If"],
       [form |-> "control", keyword |-> "while", stmt |-> "While"],
       [form |-> "control", keyword |-> "repeat", stmt |-> "Repeat"],
       [form |-> "definition", keyword |-> "to", stmt |-> "ProcedureDefinition"],
       [form |-> "call", keyword |-> "", stmt |-> "ProcedureCall"] >>

\* parse_penup, parse_pendown
parse_pen(keyword, stmt, s) ==
    AndThen(tag_no_case(keyword, s), LAMBDA word : Ok(word.rest, [stmt |-> stmt]))

\* parse_forward .. parse_setpencolor: keyword, multispace1, expression
parse_operand(keyword, stmt, s) ==
    AndThen(tag_no_case(keyword, s), LAMBDA word :
    AndThen(multispace1(word.rest), LAMBDA space :
    AndThen(parse_expression(space.rest), LAMBDA expression :
    Ok(expression.rest, [stmt |-> stmt, expr |-> expression.value]))))

\* parse_make, parse_addassign: keyword, multispace1, identifier, multispace1,
\* expression
parse_assignment(keyword, stmt, s) ==
    AndThen(tag_no_case(keyword, s), LAMBDA word :
    AndThen(multispace1(word.rest), LAMBDA space :
    AndThen(parse_identifier(space.rest), LAMBDA identifier :
    AndThen(multispace1(identifier.rest), LAMBDA between :
    AndThen(parse_expression(between.rest), LAMBDA expression :
    Ok(expression.rest,
       [stmt |-> stmt, id |-> identifier.value, expr |-> expression.value]))))))

\* the arguments of parse_procedure_call: none when the rest of the line is
\* empty once trimmed
call_arguments(parameters_string) ==
    IF trim(parameters_string) = "" THEN Ok("", <<>>)
    ELSE parse_arguments(parameters_string)

\* parse_procedure_call
parse_procedure_call(s) ==
    AndThen(parse_identifier(s), LAMBDA identifier :
    AndThen(not_line_ending(identifier.rest), LAMBDA parameters_string :
    AndThen(call_arguments(parameters_string.value), LAMBDA parameters :
    Ok(parameters_string.rest,
       ProcedureCall(identifier.value, parameters.value)))))

RECURSIVE parse_statement(_)
RECURSIVE block_statements_from(_, _)
RECURSIVE parse_all_from(_, _)

\* parse_block: "[", many0(preceded(multispace0, parse_statement)), then
\* multispace0 and "]"
block_next(s, collected, statement) ==
    IF statement.res = "exit" THEN statement
    ELSE IF statement.res = "err" THEN Ok(s, collected)
    ELSE block_statements_from(statement.rest, Append(collected, statement.value))

block_statements_from(s, collected) ==
    block_next(s, collected, parse_statement(multispace0(s).rest))

parse_block(s) ==
    AndThen(nom_tag("[", s), LAMBDA opening :
    AndThen(block_statements_from(opening.rest, <<>>), LAMBDA statements :
    AndThen(nom_tag("]", multispace0(statements.rest).rest), LAMBDA closing :
    Ok(closing.rest, statements.value))))

\* parse_if, parse_while, parse_repeat: keyword, multispace1, expression,
\* multispace0, block
parse_control(keyword, stmt, s) ==
    AndThen(tag_no_case(keyword, s), LAMBDA word :
    AndThen(multispace1(word.rest), LAMBDA space :
    AndThen(parse_expression(space.rest), LAMBDA condition :
    AndThen(parse_block(multispace0(condition.rest).rest), LAMBDA block :
    Ok(block.rest,
       [stmt |-> stmt, expr |-> condition.value, block |-> block.value])))))

\* the terminator take_until looks for at the end of the body
EndOfBody == "END\n"

\* parse_procedure_definition
parse_procedure_definition(s) ==
    AndThen(tag_no_case("to", s), LAMBDA word :
    AndThen(multispace1(word.rest), LAMBDA space :
    AndThen(parse_identifier(space.rest), LAMBDA identifier :
    AndThen(not_line_ending(identifier.rest), LAMBDA parameters_string :
    AndThen(parse_arguments(parameters_string.value), LAMBDA parameters :
    AndThen(take_until(EndOfBody, multispace0(parameters_string.rest).rest),
            LAMBDA body_string :
    AndThen(parse_all_from(trim(body_string.value), <<>>), LAMBDA filtered :
    AndThen(tag_no_case("end", multispace0(body_string.rest).rest),
            LAMBDA closing :
    Ok(closing.rest,
       ProcedureDefinition(identifier.value, parameters.value,
                           filtered.value))))))))))

\* one alternative of parse_statement
parse_with(p, s) ==
    CASE p.form = "pen"        -> parse_pen(p.keyword, p.stmt, s)
      [] p.form = "operand"    -> parse_operand(p.keyword, p.stmt, s)
      [] p.form = "assignment" -> parse_assignment(p.keyword, p.stmt, s)
      [] p.form = "control"    -> parse_control(p.keyword, p.stmt, s)
      [] p.form = "definition" -> parse_procedure_definition(s)
      [] p.form = "call"       -> parse_procedure_call(s)

\* the alt of parse_statement
parse_alternatives(s) ==
    alt([k \in DOMAIN StatementParsers |-> parse_with(StatementParsers[k], s)])

\* parse_statement after check_errors, whose result is dropped unless it
\* ended the process: the alternatives, then multispace0
checked_statement(s, checked) ==
    IF checked.res = "exit" THEN checked
    ELSE AndThen(parse_alternatives(s), LAMBDA statement :
         Ok(multispace0(statement.rest).rest, statement.value))

parse_statement(s) == checked_statement(s, check_errors(s))

\* parse_all: many0(preceded(multispace0, alt((parse_comment,
\* parse_statement)))); filter_map drops what the comments yielded
all_next(s, collected, item) ==
    IF item.res = "exit" THEN item
    ELSE IF item.res = "err" THEN Ok(s, collected)
    ELSE parse_all_from(item.rest,
                        IF "stmt" \in DOMAIN item.value
                        THEN Append(collected, item.value) ELSE collected)

comment_or_statement(s) == OrElse(parse_comment(s), parse_statement(s))

parse_all_from(s, collected) ==
    all_next(s, collected, comment_or_statement(multispace0(s).rest))

parse_all(s) == parse_all_from(s, <<>>)

\* the match of parse_program on the result of parse_all: the Block,
\* whatever text parse_all left; an error is the fatal "syntax error"
program_of(parsed) ==
    IF parsed.res = "err" THEN Exit(print_error("syntax error")) ELSE parsed

parse_program(text) == program_of(parse_all(text))

(***************************************************************************)
(* State of one run: the text read by main, the arguments of               *)
(* evaluate_program, the fields of ProgramState, and the position of       *)
(* evaluate_ast.                                                           *)
(***************************************************************************)
VARIABLES
    content,          \* the text of the program file, "" when the run is
                      \* handed a Block
    ast,              \* the Block handed to evaluate_program
    turtle,           \* ProgramState.turtle: x, y, heading, pen_down, pen_color
    stack,            \* ProgramState.stack
    procedures,       \* ProgramState.procedures: name -> (parameters, body)
    ctl,              \* the activations of evaluate_ast and of its loops
    status,           \* "parsing", "running", "finished", "exited" or "panicked"
    error,            \* the message of the fatal error, "" when none
    rendered,         \* number of generate_svg calls
    overflow_checks,  \* whether the build traps i32 overflow of + - *
    last              \* history: the step just taken and the state before it

vars == <<content, ast, turtle, stack, procedures, ctl, status, error, rendered,
          overflow_checks, last>>

(***************************************************************************)
(* evaluate_expression                                                     *)
(***************************************************************************)
\* f64 -> i32 cast of a turtle coordinate: truncation toward zero, saturating
as_i32(f) == IF f > MaxI32 THEN MaxI32 ELSE IF f < MinI32 THEN MinI32 ELSE f

\* +, -, * on i32: a panic when the build checks overflow, else two's
\* complement wrapping
Overflowing(overflows, wrapped, operation) ==
    IF ~overflows THEN IntegerValue(wrapped)
    ELSE IF overflow_checks
         THEN Fatal("panic", operation)
         ELSE IntegerValue(wrapped)

add_i32(a, b) == Overflowing(AddOverflows(a, b), WrappingAdd(a, b),
                            "attempt to add with overflow")
sub_i32(a, b) == Overflowing(SubOverflows(a, b), WrappingSub(a, b),
                            "attempt to subtract with overflow")
mul_i32(a, b) == Overflowing(MulOverflows(a, b), WrappingMul(a, b),
                            "attempt to multiply with overflow")

\* / and % trap MinI32 / -1 in every build
div_i32(a, b) ==
    IF DivOverflows(a, b) THEN Fatal("panic", "attempt to divide with overflow")
    ELSE IntegerValue(NativeDiv(a, b))

rem_i32(a, b) ==
    IF DivOverflows(a, b)
    THEN Fatal("panic", "attempt to calculate the remainder with overflow")
    ELSE IntegerValue(NativeRem(a, b))

\* a truth value with all bits set for true
BoolAllOnes(b) == IntegerValue(IF b THEN -1 ELSE 0)

\* new_value of the comparison and logical arms: 1 or 0
Bool(b) == IntegerValue(IF b THEN 1 ELSE 0)

\* the value a binary arm builds from two unwrapped integers
binary_result(tag, a, b) ==
    CASE tag = "Addition"       -> add_i32(a, b)
      [] tag = "Subtraction"    -> sub_i32(a, b)
      [] tag = "Multiplication" -> mul_i32(a, b)
      [] tag = "Division"       -> div_i32(a, b)
      [] tag = "Modulo"         -> rem_i32(a, b)
      [] tag = "And"            -> Bool(a # 0 /\ b # 0)
      [] tag = "Or"             -> Bool(a # 0 \/ b # 0)
      [] tag = "Equals"         -> Bool(a = b)
      [] tag = "NotEquals"      -> Bool(a # b)
      [] tag = "GreaterThan"    -> Bool(a > b)
      [] tag = "LessThan"       -> Bool(a < b)

\* the zero check of Division and Modulo made before the type check
binary_checks_zero_first(tag, left, right) ==
    IF /\ tag \in {"Division", "Modulo"}
       /\ right.value_type = "integer"
       /\ right.integer_value = 0
    THEN print_error("division by zero")
    ELSE IF left.value_type # "integer" \/ right.value_type # "integer"
    THEN print_error("type mismatch")
    ELSE binary_result(tag, left.integer_value, right.integer_value)

\* the checks of a binary arm once both operands have been evaluated: the
\* type check, then for Division and Modulo the zero check, then the result
binary_checks(tag, left, right) ==
    IF left.value_type # "integer" \/ right.value_type # "integer"
    THEN print_error("type mismatch")
    ELSE IF tag \in {"Division", "Modulo"} /\ right.integer_value = 0
    THEN print_error("division by zero")
    ELSE binary_result(tag, left.integer_value, right.integer_value)

\* a StringLiteral arm that compares the text as written
string_literal_value_exact(value) ==
    IF value = "true" \/ value = "false"
    THEN IntegerValue(IF value = "true" THEN 1 ELSE 0)
    ELSE StringValue(value)

\* the Expression::StringLiteral arm: "true" and "false" in any letter case
\* are the integers 1 and 0
string_literal_value(value) ==
    IF to_lowercase(value) = "true" \/ to_lowercase(value) = "false"
    THEN IntegerValue(IF to_lowercase(value) = "true" THEN 1 ELSE 0)
    ELSE StringValue(value)

RECURSIVE evaluate_expression(_, _, _)
evaluate_expression(expr, stk, t) ==
    CASE expr.tag = "IntegerLiteral" -> IntegerValue(expr.int)
      [] expr.tag = "StringLiteral" -> string_literal_value(expr.str)
      [] expr.tag = "VariableReference" -> get_error_handled(stk, expr.name)
      [] expr.tag = "QueryXCor"    -> IntegerValue(as_i32(t.x))
      [] expr.tag = "QueryYCor"    -> IntegerValue(as_i32(t.y))
      [] expr.tag = "QueryHeading" -> IntegerValue(as_i32(t.heading))
      [] expr.tag = "QueryColor"   -> IntegerValue(t.pen_color)
      [] expr.tag \in BinaryTags ->
            LET left == evaluate_expression(expr.lhs, stk, t) IN
            IF IsFatal(left) THEN left
            ELSE LET right == evaluate_expression(expr.rhs, stk, t) IN
                 IF IsFatal(right) THEN right
                 ELSE binary_checks(expr.tag, left, right)

\* an unwrap that takes Integer 0 for a value that holds no integer
unwrap_integer_or_default(v) ==
    IF IsFatal(v) THEN v
    ELSE IF v.value_type = "integer" THEN v
    ELSE IntegerValue(0)

\* integer_value.unwrap() of an evaluated value
unwrap_integer(v) ==
    IF IsFatal(v) THEN v
    ELSE IF v.value_type = "integer" THEN v
    ELSE UnwrapNone

(***************************************************************************)
(* Turtle (src/src/turtle.rs).  Coordinates and heading are f64 in the     *)
(* code but only ever hold integral values; the image is not modelled.     *)
(* get_end_coordinates belongs to the unsvg crate: the model has its       *)
(* result for the four axis headings, the only ones the modelled programs  *)
(* move along.                                                             *)
(***************************************************************************)
ImageSize == 200

TurtleNew(width, height) ==
    [x |-> width \div 2, y |-> height \div 2, heading |-> 0,
     pen_down |-> FALSE, pen_color |-> 7]

\* a move that goes up the image whatever the heading
move_turtle_unturned(t, distance) == [t EXCEPT !.y = t.y - distance]

move_turtle(t, distance) ==
    CASE t.heading = 0   -> [t EXCEPT !.y = t.y - distance]
      [] t.heading = 90  -> [t EXCEPT !.x = t.x + distance]
      [] t.heading = 180 -> [t EXCEPT !.y = t.y + distance]
      [] t.heading = 270 -> [t EXCEPT !.x = t.x - distance]

\* the turtle after a motion or setter statement whose operand is n, or the
\* fatal error of set_pen_color
turtle_operation(t, stmt, n) ==
    CASE stmt = "Forward"    -> move_turtle(t, n)
      [] stmt = "Back"       -> move_turtle(t, -n)
      [] stmt = "Left"       -> [t EXCEPT !.heading = (t.heading - n) % 360]
      [] stmt = "Right"      -> [t EXCEPT !.heading = (t.heading + n) % 360]
      [] stmt = "Turn"       -> [t EXCEPT !.heading = (t.heading + n) % 360]
      [] stmt = "SetX"       -> [t EXCEPT !.x = n]
      [] stmt = "SetY"       -> [t EXCEPT !.y = n]
      [] stmt = "SetHeading" -> [t EXCEPT !.heading = n % 360]
      [] stmt = "SetPenColor" ->
            IF n < 0 \/ n > 15 THEN print_error("invalid color")
            ELSE [t EXCEPT !.pen_color = n]

IsTurtle(r) == "heading" \in DOMAIN r

(***************************************************************************)
(* evaluate_ast.  ctl holds, innermost last, the activations in progress:  *)
(*   [kind "block"]  a call of evaluate_ast on block, pc its next node;    *)
(*   [kind "repeat"] the for loop of Repeat: i iterations started out of   *)
(*                   the range 0..times; stmt and entry (the state when    *)
(*                   the loop was entered) are history;                    *)
(*   [kind "while"]  the while loop of While;                              *)
(*   [kind "call"]   a ProcedureCall between the evaluation of its body    *)
(*                   and its pops; name, arguments and caller_stack (the   *)
(*                   scope stack when the call began) are history.         *)
(***************************************************************************)
BlockFrame(block) == [kind |-> "block", block |-> block, pc |-> 1]

Top == ctl[Len(ctl)]
Cur == Top.block[Top.pc]
AtStatement(kinds) ==
    /\ status = "running"
    /\ ctl # <<>>
    /\ Top.kind = "block"
    /\ Top.pc <= Len(Top.block)
    /\ Cur.stmt \in kinds

\* the control stack once the current node is done
Advanced == [ctl EXCEPT ![Len(ctl)].pc = Top.pc + 1]
\* a return that leaves its frame on the control stack
Unpopped == ctl

Popped == SubSeq(ctl, 1, Len(ctl) - 1)

Pre == [stack |-> stack, turtle |-> turtle, procedures |-> procedures]
Record(op, stmt, value) ==
    last' = [op |-> op, stmt |-> stmt, value |-> value, pre |-> Pre,
             depth |-> Len(ctl)]
NoStmt == [stmt |-> "none"]

\* the process ends: std::process::exit(1) or a panic
Die(fatal) ==
    /\ status' = (IF fatal.how = "exit" THEN "exited" ELSE "panicked")
    /\ error' = fatal.error
    /\ UNCHANGED <<ctl, rendered>>

Continue(next_ctl) ==
    /\ ctl' = next_ctl
    /\ UNCHANGED <<status, error, rendered>>

\* Statement::PenUp, Statement::PenDown
ExecPen ==
    /\ AtStatement({"PenUp", "PenDown"})
    /\ turtle' = [turtle EXCEPT !.pen_down = (Cur.stmt = "PenDown")]
    /\ Continue(Advanced)
    /\ Record("statement", Cur, NoValue)
    /\ UNCHANGED <<content, ast, stack, procedures, overflow_checks>>

\* Statement::Forward .. Statement::SetPenColor
ExecTurtle ==
    /\ AtStatement(MotionStmts \cup SetterStmts)
    /\ LET value == evaluate_expression(Cur.expr, stack, turtle)
           n == unwrap_integer(value)
           t == IF IsFatal(n) THEN n
                ELSE turtle_operation(turtle, Cur.stmt, n.integer_value)
       IN /\ IF IsTurtle(t)
             THEN turtle' = t /\ Continue(Advanced)
             ELSE turtle' = turtle /\ Die(t)
          /\ Record("statement", Cur, value)
    /\ UNCHANGED <<content, ast, stack, procedures, overflow_checks>>

\* a Make that replaces the most recent binding of the name when there is one
make_binding_replace(stk, id, value) == set(stk, id, value)

\* the scope stack after Make: the binding is pushed with Vec::push
make_binding(stk, id, value) == Append(stk, [name |-> id, value |-> value])

\* Statement::Make
ExecMake ==
    /\ AtStatement({"Make"})
    /\ LET value == evaluate_expression(Cur.expr, stack, turtle) IN
       /\ IF IsFatal(value)
          THEN stack' = stack /\ Die(value)
          ELSE stack' = make_binding(stack, Cur.id, value) /\ Continue(Advanced)
       /\ Record("statement", Cur, value)
    /\ UNCHANGED <<content, ast, turtle, procedures, overflow_checks>>

\* the new value AddAssign computes from the current and the evaluated value
add_assign_value(current_value, value) ==
    IF IsFatal(unwrap_integer(current_value)) THEN unwrap_integer(current_value)
    ELSE IF IsFatal(unwrap_integer(value)) THEN unwrap_integer(value)
    ELSE add_i32(current_value.integer_value, value.integer_value)

\* Statement::AddAssign
ExecAddAssign ==
    /\ AtStatement({"AddAssign"})
    /\ LET value == evaluate_expression(Cur.expr, stack, turtle)
           current_value == IF IsFatal(value) THEN value
                            ELSE get_error_handled(stack, Cur.id)
           new_value == IF IsFatal(current_value) THEN current_value
                        ELSE add_assign_value(current_value, value)
       IN /\ IF IsFatal(new_value)
             THEN stack' = stack /\ Die(new_value)
             ELSE stack' = set(stack, Cur.id, new_value) /\ Continue(Advanced)
          /\ Record("statement", Cur, value)
    /\ UNCHANGED <<content, ast, turtle, procedures, overflow_checks>>

\* a test that takes the block only for a positive condition
if_taken_positive(condition) == condition > 0

\* the test of If: condition != 0
if_taken(condition) == condition # 0

\* an If whose evaluation of the condition consumes the most recent binding
ExecIfConsuming ==
    /\ AtStatement({"If"})
    /\ LET value == evaluate_expression(Cur.expr, stack, turtle)
           condition == unwrap_integer(value)
       IN /\ IF IsFatal(condition) THEN Die(condition)
             ELSE IF if_taken(condition.integer_value)
             THEN Continue(Append(Advanced, BlockFrame(Cur.block)))
             ELSE Continue(Advanced)
          /\ Record("statement", Cur, value)
    /\ stack' = SubSeq(stack, 1, Len(stack) - 1)
    /\ UNCHANGED <<content, ast, turtle, procedures, overflow_checks>>

\* Statement::If
ExecIf ==
    /\ AtStatement({"If"})
    /\ LET value == evaluate_expression(Cur.expr, stack, turtle)
           condition == unwrap_integer(value)
       IN /\ IF IsFatal(condition) THEN Die(condition)
             ELSE IF if_taken(condition.integer_value)
             THEN Continue(Append(Advanced, BlockFrame(Cur.block)))
             ELSE Continue(Advanced)
          /\ Record("statement", Cur, value)
    /\ UNCHANGED <<content, ast, turtle, stack, procedures, overflow_checks>>

\* the number of evaluations of its condition up to which one while loop is
\* followed
MaxWhileTests == 4

\* a loop that goes on only while its condition is positive
while_continues_positive(condition) == condition > 0

\* the test of the while loop: condition != 0
while_continues(condition) == condition # 0

\* Statement::While: the loop is entered; WhileTest evaluates its condition.
\* stmt, iterations (the bodies started) and entry are history.
ExecWhile ==
    /\ AtStatement({"While"})
    /\ Continue(Append(Advanced,
                       [kind |-> "while", expr |-> Cur.expr, block |-> Cur.block,
                        stmt |-> Cur, iterations |-> 0, entry |-> Pre]))
    /\ Record("statement", Cur, NoValue)
    /\ UNCHANGED <<content, ast, turtle, stack, procedures, overflow_checks>>

\* the condition of the while loop, evaluated before every iteration
WhileTest ==
    /\ status = "running" /\ ctl # <<>> /\ Top.kind = "while"
    /\ Top.iterations < MaxWhileTests
    /\ LET value == evaluate_expression(Top.expr, stack, turtle)
           condition == unwrap_integer(value)
       IN /\ IF IsFatal(condition) THEN Die(condition)
             ELSE IF while_continues(condition.integer_value)
             THEN Continue(Append([ctl EXCEPT ![Len(ctl)].iterations =
                                                  Top.iterations + 1],
                                  BlockFrame(Top.block)))
             ELSE Continue(Popped)
          /\ last' = [op |-> (IF IsFatal(condition) THEN "while_fatal"
                              ELSE IF while_continues(condition.integer_value)
                              THEN "while_iteration" ELSE "while_end"),
                      stmt |-> Top.stmt, value |-> value, pre |-> Pre,
                      iterations |-> Top.iterations, entry |-> Top.entry,
                      depth |-> Len(ctl)]
    /\ UNCHANGED <<content, ast, turtle, stack, procedures, overflow_checks>>

\* the inclusive range 0..=times
range_next_inclusive(i, times) == i <= times

\* Range<i32>::next of 0..times after i items: is there another one
range_next(i, times) == i < times

\* Statement::Repeat: the count is evaluated and the range 0..times built
ExecRepeat ==
    /\ AtStatement({"Repeat"})
    /\ LET value == evaluate_expression(Cur.expr, stack, turtle)
           times == unwrap_integer(value)
       IN /\ IF IsFatal(times) THEN Die(times)
             ELSE Continue(Append(Advanced,
                      [kind |-> "repeat", block |-> Cur.block, i |-> 0,
                       times |-> times.integer_value, stmt |-> Cur,
                       entry |-> Pre]))
          /\ Record("statement", Cur, value)
    /\ UNCHANGED <<content, ast, turtle, stack, procedures, overflow_checks>>

\* the for loop of Repeat: the next iteration, or the end of the loop
RepeatNext ==
    /\ status = "running" /\ ctl # <<>> /\ Top.kind = "repeat"
    /\ IF range_next(Top.i, Top.times)
       THEN Continue(Append([ctl EXCEPT ![Len(ctl)].i = Top.i + 1],
                            BlockFrame(Top.block)))
       ELSE Continue(Popped)
    /\ last' = [op |-> (IF range_next(Top.i, Top.times)
                        THEN "repeat_iteration" ELSE "repeat_end"),
                stmt |-> Top.stmt, value |-> IntegerValue(Top.times),
                pre |-> Pre, iterations |-> Top.i, entry |-> Top.entry]
    /\ UNCHANGED <<content, ast, turtle, stack, procedures, overflow_checks>>

\* the loop of ProcedureDefinition over its parameters from parameter i on:
\* the names collected, and the fatal error of a parameter that is not a
\* StringLiteral
RECURSIVE parameter_names(_, _)
parameter_names(parameters, i) ==
    IF i > Len(parameters) THEN [names |-> <<>>, fatal |-> NoValue]
    ELSE IF parameters[i].tag # "StringLiteral"
    THEN [names |-> <<>>, fatal |-> print_error("invalid parameter")]
    ELSE LET rest == parameter_names(parameters, i + 1) IN
         [names |-> <<parameters[i].str>> \o rest.names, fatal |-> rest.fatal]

\* HashMap::insert
insert(map, key, value) ==
    [k \in DOMAIN map \cup {key} |-> IF k = key THEN value ELSE map[k]]

\* Statement::ProcedureDefinition
ExecProcedureDefinition ==
    /\ AtStatement({"ProcedureDefinition"})
    /\ LET collected == parameter_names(Cur.parameters, 1) IN
       IF IsFatal(collected.fatal)
       THEN procedures' = procedures /\ Die(collected.fatal)
       ELSE /\ procedures' = insert(procedures, Cur.name,
                                    [parameters |-> collected.names,
                                     body |-> Cur.body])
            /\ Continue(Advanced)
    /\ Record("statement", Cur, NoValue)
    /\ UNCHANGED <<content, ast, turtle, stack, overflow_checks>>

\* a check that only rejects surplus arguments
count_mismatch_surplus(parameters_len, arguments_len) ==
    arguments_len > parameters_len

\* the check of the argument count against the parameter count
count_mismatch(parameters_len, arguments_len) == parameters_len # arguments_len

\* the argument loop of ProcedureCall from argument i on: each argument is
\* evaluated on the stack as it is at that point and pushed under the name
\* of parameter i
RECURSIVE bind_arguments(_, _, _, _, _)
bind_arguments(parameters, arguments, i, stk, t) ==
    IF i > Len(arguments) THEN [stack |-> stk, fatal |-> NoValue]
    ELSE LET value == evaluate_expression(arguments[i], stk, t) IN
         IF IsFatal(value) THEN [stack |-> stk, fatal |-> value]
         ELSE IF i > Len(parameters)
         THEN [stack |-> stk, fatal |-> print_error("too many arguments")]
         ELSE bind_arguments(parameters, arguments, i + 1,
                             push(stk, parameters[i], value), t)

\* the number of calls active at once up to which a run is followed
MaxCallDepth == 3
CallDepth == Cardinality({i \in DOMAIN ctl : ctl[i].kind = "call"})

\* Statement::ProcedureCall up to the evaluation of the body
ExecProcedureCall ==
    /\ AtStatement({"ProcedureCall"})
    /\ CallDepth < MaxCallDepth
    /\ IF Cur.name \notin DOMAIN procedures
       THEN stack' = stack /\ Die(print_error("procedure not found"))
       ELSE LET procedure == procedures[Cur.name]
                bound == bind_arguments(procedure.parameters, Cur.arguments, 1,
                                        stack, turtle)
            IN IF count_mismatch(Len(procedure.parameters), Len(Cur.arguments))
               THEN stack' = stack /\ Die(print_error("argument count mismatch"))
               ELSE IF IsFatal(bound.fatal)
               THEN stack' = bound.stack /\ Die(bound.fatal)
               ELSE /\ stack' = bound.stack
                    /\ Continue(Advanced \o
                         <<[kind |-> "call",
                            parameters_pushed |-> Len(Cur.arguments),
                            stmt |-> Cur, caller_stack |-> stack],
                           BlockFrame(procedure.body)>>)
    /\ Record("statement", Cur, NoValue)
    /\ UNCHANGED <<content, ast, turtle, procedures, overflow_checks>>

\* one pop however many parameters were pushed
pop_once(stk, n) == IF n > 0 THEN pop(stk) ELSE stk

\* n times ProgramState::pop
RECURSIVE pop_n(_, _)
pop_n(stk, n) == IF n > 0 THEN pop_n(pop(stk), n - 1) ELSE stk

\* Statement::ProcedureCall after the body: as many pops as parameters pushed
ProcedureReturn ==
    /\ status = "running" /\ ctl # <<>> /\ Top.kind = "call"
    /\ stack' = pop_n(stack, Top.parameters_pushed)
    /\ Continue(Popped)
    /\ last' = [op |-> "return", stmt |-> Top.stmt, value |-> NoValue,
                pre |-> Pre, caller_stack |-> Top.caller_stack]
    /\ UNCHANGED <<content, ast, turtle, procedures, overflow_checks>>

\* evaluate_ast returns: the for loop over the block has no node left
BlockEnd ==
    /\ status = "running" /\ ctl # <<>> /\ Top.kind = "block"
    /\ Top.pc > Len(Top.block)
    /\ Continue(Popped)
    /\ Record("block_end", NoStmt, NoValue)
    /\ UNCHANGED <<content, ast, turtle, stack, procedures, overflow_checks>>

\* evaluate_program after evaluate_ast: generate_svg
Finish ==
    /\ status = "running" /\ ctl = <<>>
    /\ status' = "finished"
    /\ rendered' = rendered + 1
    /\ Record("generate_svg", NoStmt, NoValue)
    /\ UNCHANGED <<content, ast, turtle, stack, procedures, ctl, error, overflow_checks>>

\* main once parse_program has returned or ended the process: the Block is
\* handed to evaluate_program; remaining (the text parse_all left) is
\* history
Parsed(parsed) ==
    /\ IF parsed.res = "exit"
       THEN ast' = ast /\ Die(parsed.fatal)
       ELSE /\ ast' = parsed.value
            /\ ctl' = <<BlockFrame(parsed.value)>>
            /\ status' = "running"
            /\ UNCHANGED <<error, rendered>>
    /\ last' = [op |-> "parse", stmt |-> NoStmt, value |-> NoValue,
                pre |-> Pre, depth |-> 0,
                remaining |-> (IF parsed.res = "exit" THEN "" ELSE parsed.rest)]

\* main: parse_program(content)
ParseProgram ==
    /\ status = "parsing"
    /\ Parsed(parse_program(content))
    /\ UNCHANGED <<content, turtle, stack, procedures, overflow_checks>>

(***************************************************************************)
(* The programs evaluated.  evaluate_program accepts every Block; the      *)
(* model runs the blocks of three families, each built from a small        *)
(* vocabulary of statements.                                               *)
(***************************************************************************)
MaxBodyLen == 2
MaxArgs == 2
MaxProgLen == 3
MaxRepeatBodyLen == 2
MaxWhileBodyLen == 2
MaxIfBodyLen == 2

\* the sequences over S of length at most n
RECURSIVE SeqsUpTo(_, _)
SeqsUpTo(S, n) ==
    IF n = 0 THEN {<<>>}
    ELSE LET shorter == SeqsUpTo(S, n - 1) IN
         shorter \cup {Append(q, e) : q \in {r \in shorter : Len(r) = n - 1}, e \in S}

X == VariableReference("x")
Lit(n) == IntegerLiteral(n)

\* procedure P, called once between a binding of x and a read of x
BodyStmts ==
    {Forward(X), Make("y", Lit(5)), Make("x", Lit(3)), AddAssign("x", Lit(1)),
     ProcedureCall("Q", <<Lit(7)>>)}
ParamLists == {<<>>, <<StringLiteral("x")>>, <<StringLiteral("x"), StringLiteral("y")>>,
               <<StringLiteral("y"), StringLiteral("x")>>}
ArgExprs == {Lit(2), X, VariableReference("q")}
QDefinition ==
    ProcedureDefinition("Q", <<StringLiteral("x")>>, <<Make("z", X), Forward(X)>>)
CallPrograms ==
    { <<QDefinition, ProcedureDefinition("P", ps, b)>> \o pre
        \o <<ProcedureCall("P", as), Forward(X)>> :
        ps \in ParamLists, b \in SeqsUpTo(BodyStmts, MaxBodyLen),
        pre \in {<<>>, <<Make("x", Lit(1))>>},
        as \in SeqsUpTo(ArgExprs, MaxArgs) }

\* straight-line programs over bindings, updates and reads
TopStmts ==
    {Make("x", Lit(5)), Make("x", Lit(1)), Make("y", StringLiteral("abc")),
     Make("y", Lit(-4)), AddAssign("x", Lit(3)), AddAssign("y", X),
     Forward(X), SetPenColor(VariableReference("y")), PenDown,
     ProcedureCall("R", <<>>), ProcedureDefinition("R", <<>>, <<PenDown>>),
     If(Binary("GreaterThan", X, Lit(4)), <<Right(Lit(90)), PenUp>>),
     While(Binary("LessThan", X, Lit(7)), <<AddAssign("x", Lit(2))>>)}
StraightPrograms == SeqsUpTo(TopStmts, MaxProgLen) \ {<<>>}

\* a Repeat whose count reads n or the turtle, after a binding of n
CountExprs ==
    {Lit(0), Lit(-1), Lit(2), VariableReference("n"),
     Binary("Subtraction", QueryXCor, Lit(98)), StringLiteral("abc")}
RepeatBodyStmts ==
    {Forward(Lit(10)), AddAssign("n", Lit(1)), AddAssign("n", Lit(-1)),
     SetX(Lit(0)), Left(Lit(90))}
RepeatPrograms ==
    { <<Make("n", Lit(k)), Repeat(c, b), Back(VariableReference("n"))>> :
        k \in {-1, 0, 1, 2}, c \in CountExprs,
        b \in SeqsUpTo(RepeatBodyStmts, MaxRepeatBodyLen) }

\* a While whose condition reads n, after a binding of n
WhileConditions ==
    {VariableReference("n"), Binary("LessThan", VariableReference("n"), Lit(2)),
     Lit(0), StringLiteral("abc"), StringLiteral("false")}
WhileBodyStmts ==
    {AddAssign("n", Lit(1)), AddAssign("n", Lit(-1)), Right(Lit(90)),
     Make("n", StringLiteral("abc"))}
WhilePrograms ==
    { <<Make("n", Lit(k)), While(c, b), Right(VariableReference("n"))>> :
        k \in {-2, 0, 1}, c \in WhileConditions,
        b \in SeqsUpTo(WhileBodyStmts, MaxWhileBodyLen) }

\* an If whose condition reads n, after a binding of n
IfConditions ==
    {VariableReference("n"), Lit(0), StringLiteral("abc"), StringLiteral("True"),
     VariableReference("q")}
IfBodyStmts == {PenDown, AddAssign("n", Lit(1)), Right(Lit(90))}
IfPrograms ==
    { <<Make("n", v), If(c, b), PenUp>> :
        v \in {Lit(-2), Lit(0), Lit(1), StringLiteral("abc")},
        c \in IfConditions, b \in SeqsUpTo(IfBodyStmts, MaxIfBodyLen) }

\* every motion and setter statement on an operand of either type
OperandValues == {StringLiteral("abc"), StringLiteral("true"), Lit(90), Lit(3)}
OperandExprs ==
    {VariableReference("s"), StringLiteral("abc"), Lit(0),
     Binary("Addition", VariableReference("s"), Lit(1))}
OperandPrograms ==
    { <<PenDown, Make("s", v), [stmt |-> k, expr |-> e]>> :
        v \in OperandValues, k \in MotionStmts \cup SetterStmts,
        e \in OperandExprs }

\* one binary expression of every operator over operands of either type,
\* unbound, or failing on their own
BinaryOperands ==
    {Lit(-1), Lit(0), Lit(1), Lit(2), StringLiteral("abc"), StringLiteral("True"),
     VariableReference("q"), Binary("Division", Lit(1), Lit(0)),
     Binary("And", Lit(0), Lit(2))}
BinaryPrograms ==
    { <<Make("r", Binary(op, l, r))>> :
        op \in BinaryTags, l \in BinaryOperands, r \in BinaryOperands }

\* updates and arithmetic at the ends of the i32 range
ExtremePrograms ==
    { <<Make("x", Lit(a)), s>> :
        a \in {MaxI32, MaxI32 - 1, MinI32, MinI32 + 1},
        s \in {AddAssign("x", Lit(1)), AddAssign("x", Lit(-1)),
               AddAssign("x", Lit(2)), AddAssign("x", X)}
              \cup {Make("y", Binary(op, X, Lit(k))) :
                      op \in {"Addition", "Subtraction", "Multiplication"},
                      k \in {-2, -1, 1, 2}} }

\* two definitions, of the same name or not, after a binding and a move;
\* the parameters are the expressions the parser yields on a definition line
ParameterExprs ==
    {StringLiteral("p"), VariableReference("p"), StringLiteral("q"), Lit(10),
     QueryXCor}
DefinitionBodies == {<<PenDown>>, <<Make("x", Lit(2)), Forward(Lit(10))>>}
DefinitionPrograms ==
    { <<Make("x", Lit(1)), Forward(Lit(10)), ProcedureDefinition("P", ps, b),
        ProcedureDefinition(n, qs, <<Right(Lit(90))>>), PenUp>> :
        ps \in SeqsUpTo(ParameterExprs, MaxArgs), b \in DefinitionBodies,
        n \in {"P", "R"}, qs \in {<<>>, <<StringLiteral("q")>>} }

\* a binding of a string literal in some letter case, then a read of it or
\* an update by a second literal
LiteralWords ==
    {"true", "True", "TRUE", "tRuE", "false", "False", "FALSE", "abc", "truex",
     "fals", "True1"}
LiteralPrograms ==
    { <<Make("s", StringLiteral(w)), t, Forward(VariableReference("s"))>> :
        w \in LiteralWords,
        t \in {Make("t", VariableReference("s")), AddAssign("s", VariableReference("s"))}
              \cup {AddAssign("s", StringLiteral(v)) : v \in LiteralWords} }

\* a procedure that calls itself, two that call each other, and one that
\* calls itself while n is not 0
RecursivePrograms ==
    { <<ProcedureDefinition("P", <<>>, <<Right(Lit(90)), ProcedureCall("P", <<>>)>>),
        ProcedureCall("P", <<>>), PenUp>>,
      <<ProcedureDefinition("P", <<>>, <<ProcedureCall("R", <<>>)>>),
        ProcedureDefinition("R", <<>>, <<Left(Lit(90)), ProcedureCall("P", <<>>)>>),
        ProcedureCall("P", <<>>)>>,
      <<Make("n", Lit(1)),
        ProcedureDefinition("P", <<>>,
            <<If(VariableReference("n"),
                 <<AddAssign("n", Lit(-1)), ProcedureCall("P", <<>>)>>)>>),
        ProcedureCall("P", <<>>), PenDown>> }

Programs ==
    RecursivePrograms \cup CallPrograms \cup StraightPrograms \cup RepeatPrograms \cup ExtremePrograms
        \cup WhilePrograms \cup IfPrograms \cup OperandPrograms
        \cup BinaryPrograms \cup DefinitionPrograms \cup LiteralPrograms

\* one Division or Modulo over operands at the ends of the i32 range, of
\* either type, or unbound
I32Samples == {MinI32, MinI32 + 1, -7, -2, -1, 0, 1, 2, 7, MaxI32 - 1, MaxI32}
Operands ==
    {Lit(v) : v \in I32Samples}
        \cup {StringLiteral("abc"), StringLiteral("True"), VariableReference("q")}
ArithPrograms ==
    { <<Make("r", Binary(op, l, r))>> :
        op \in {"Division", "Modulo"}, l \in Operands, r \in Operands }

\* the state evaluate_program builds before it calls evaluate_ast
InitWith(programs) ==
    /\ content = ""
    /\ ast \in programs
    /\ turtle = TurtleNew(ImageSize, ImageSize)
    /\ stack = <<>>
    /\ procedures = <<>>
    /\ ctl = <<BlockFrame(ast)>>
    /\ status = "running"
    /\ error = ""
    /\ rendered = 0
    /\ overflow_checks \in BOOLEAN
    /\ last = [op |-> "init", stmt |-> NoStmt, value |-> NoValue, pre |-> Pre,
               depth |-> 1]

Init == InitWith(Programs)

Next ==
    \/ ExecPen
    \/ ExecTurtle
    \/ ExecMake
    \/ ExecAddAssign
    \/ ExecIf
    \/ ExecWhile
    \/ WhileTest
    \/ ExecRepeat
    \/ RepeatNext
    \/ ExecProcedureDefinition
    \/ ExecProcedureCall
    \/ ProcedureReturn
    \/ BlockEnd
    \/ Finish

Spec == Init /\ [][Next]_vars

\* the interpreter is one sequential process: while a step is possible it
\* takes one
SpecFair == Spec /\ WF_vars(Next)

(***************************************************************************)
(* The texts parsed.  parse_program accepts every String; the model parses *)
(* the texts of the families below, each put together from a small         *)
(* vocabulary of lines, words and fragments.                               *)
(***************************************************************************)
MaxPieces == 3

RECURSIVE Concat(_)
Concat(pieces) ==
    IF pieces = <<>> THEN "" ELSE Head(pieces) \o Concat(Tail(pieces))

\* whole programs that use every statement
WholeTexts ==
    {"TO Sq \"size\nREPEAT :size [ FORWARD \"10 RIGHT \"90 ]\nEND\nSq \"4\n",
     "MAKE \"n \"0\nWHILE LT :n \"2 [ ADDASSIGN \"n \"1 ]\nIF EQ :n \"2 [ PENDOWN ]\n",
     "// a square\nPENDOWN\nREPEAT \"4 [\n  FORWARD \"10\n  LEFT \"90\n]\nPENUP\n",
     ""}

\* comments and whitespace only
CommentPieces ==
    {"// a comment\n", "//\n", " ", "\n", "\t", "// PENUP\n",
     "//FORWARD \"abc\r\n", "  // MAKE \"x\n"}
CommentTails == {"", "// no line ending", "//"}
CommentTexts ==
    { Concat(pieces) \o tail :
        pieces \in SeqsUpTo(CommentPieces, MaxPieces), tail \in CommentTails }

\* a fragment that begins no statement and no comment, between statements
StopFragments == {"]\n", ")\n", "+ \"1 \"2\n", "[ PENUP ]\n", "/ x\n", "-\n"}
LinesBefore == {"", "PENUP\n", "// c\nFORWARD \"10\n"}
LinesAfter == {"", "PENDOWN\n", "RIGHT \"90\n// c\n"}
FragmentTexts ==
    { before \o fragment \o after :
        before \in LinesBefore, fragment \in StopFragments \cup {"", "  \n"},
        after \in LinesAfter }

\* a keyword that takes no argument, followed by one argument on its line
PenKeywords == {"PENUP", "PENDOWN", "penup"}
PenArguments == {"1", "\"1", ":x", "XCOR", "abc"}
PenArgumentTexts ==
    { keyword \o " " \o argument \o after :
        keyword \in PenKeywords, argument \in PenArguments,
        after \in {"", "\n", "\nFORWARD \"10\n"} }

\* a line of a keyword that takes arguments and of up to MaxLineArgs
\* expressions, after a line that would put the pen down; a control keyword
\* has its block after the expressions
MaxLineArgs == 3
OneArgumentKeywords ==
    {"FORWARD", "BACK", "LEFT", "RIGHT", "TURN", "SETX", "SETY", "SETHEADING",
     "SETPENCOLOR", "forward"}
ControlKeywords == {"IF", "WHILE", "REPEAT", "Repeat"}
AssignmentKeywords == {"MAKE", "ADDASSIGN", "make"}
StringTokens == {"\"abc"}
ArgumentTokens == {"\"10", ":x", "XCOR", "+ :x \"1"} \cup StringTokens
LinePrefixes == {"", "PENDOWN\n"}

RECURSIVE JoinArguments(_)
JoinArguments(tokens) ==
    IF tokens = <<>> THEN "" ELSE " " \o Head(tokens) \o JoinArguments(Tail(tokens))

KeywordLine(keyword, tokens) ==
    keyword \o JoinArguments(tokens)
            \o (IF keyword \in ControlKeywords THEN " [ PENUP ]" ELSE "") \o "\n"

\* the number of arguments check_errors expects after a keyword
ExpectedArguments(keyword) == IF keyword \in AssignmentKeywords THEN 2 ELSE 1

LineKeywords == OneArgumentKeywords \cup ControlKeywords \cup AssignmentKeywords
LineArguments == SeqsUpTo(ArgumentTokens, MaxLineArgs)

\* the lines with a number of arguments other than the expected one
CountRejectedTexts ==
    { prefix \o KeywordLine(line[1], line[2]) :
        prefix \in LinePrefixes,
        line \in {l \in LineKeywords \X LineArguments :
                     Len(l[2]) # ExpectedArguments(l[1])} }

\* the lines of a keyword that takes one argument with a string literal as
\* its one argument
TypeRejectedTexts ==
    { prefix \o KeywordLine(keyword, <<token>>) :
        prefix \in LinePrefixes,
        keyword \in OneArgumentKeywords \cup ControlKeywords,
        token \in StringTokens }

\* the lines with the expected number of arguments, none of them a string
\* literal where one argument is expected
AcceptedTexts ==
    { prefix \o KeywordLine(line[1], line[2]) :
        prefix \in LinePrefixes,
        line \in {l \in LineKeywords \X LineArguments :
                     /\ Len(l[2]) = ExpectedArguments(l[1])
                     /\ l[1] \in AssignmentKeywords \/ l[2][1] \notin StringTokens} }

KeywordTexts == CountRejectedTexts \cup TypeRejectedTexts \cup AcceptedTexts

\* a statement that begins with a control keyword or with TO and lacks the
\* block or the END line of its structure
UnstructuredTexts ==
    {"IF :x\n", "IF :x\nPENUP\n", "WHILE XCOR PENUP\n", "REPEAT \"4 [ PENUP\n",
     "repeat \"4 ]\n", "TO P\nPENUP\n", "TO P\n", "PENDOWN\nTO P \"a\nPENUP\n"}

\* a definition closed by END in some letter case, with or without a line
\* ending after it
DefinitionOpeners == {"TO", "to", "To"}
DefinitionClosers == {"END", "end", "End"}
DefinitionText(opener, closer, ending) ==
    opener \o " P\nPENUP\n" \o closer \o ending
DefinitionTexts ==
    { DefinitionText(opener, closer, ending) :
        opener \in DefinitionOpeners, closer \in DefinitionClosers,
        ending \in {"\n", "\nP\n"} }

\* a MAKE whose value is a comparison or a logical operation, with the
\* operator token in some letter case
UpperOperators == {"EQ", "NE", "GT", "LT", "AND", "OR"}
LowerOperators == {"eq", "ne", "gt", "lt", "and", "or", "Eq", "And"}
OperatorText(operator) == "MAKE \"a " \o operator \o " \"1 \"2\n"
OperatorTexts == { OperatorText(operator) : operator \in UpperOperators \cup LowerOperators }

\* integer literals at and beyond the ends of the i32 range, each with the
\* value it denotes when it fits
IntegerSamples ==
    { [literal |-> "\"0", fits |-> TRUE, value |-> 0],
      [literal |-> "\"-0", fits |-> TRUE, value |-> 0],
      [literal |-> "\"007", fits |-> TRUE, value |-> 7],
      [literal |-> "\"-15", fits |-> TRUE, value |-> -15],
      [literal |-> "\"2147483647", fits |-> TRUE, value |-> MaxI32],
      [literal |-> "\"00000000002147483647", fits |-> TRUE, value |-> MaxI32],
      [literal |-> "\"-2147483648", fits |-> TRUE, value |-> MinI32],
      [literal |-> "\"2147483648", fits |-> FALSE, value |-> 0],
      [literal |-> "\"-2147483649", fits |-> FALSE, value |-> 0],
      [literal |-> "\"2147483650", fits |-> FALSE, value |-> 0],
      [literal |-> "\"4294967296", fits |-> FALSE, value |-> 0],
      [literal |-> "\"4294967303", fits |-> FALSE, value |-> 0],
      [literal |-> "\"-4294967311", fits |-> FALSE, value |-> 0],
      [literal |-> "\"99999999999", fits |-> FALSE, value |-> 0],
      [literal |-> "\"-100000000000000000000", fits |-> FALSE, value |-> 0] }

\* the places of a literal in a program: the text around it and the Block
\* the text denotes
IntegerPlaces == {"make", "comparison", "argument", "block"}
IntegerText(place, literal) ==
    CASE place = "make"       -> "MAKE \"x " \o literal \o "\n"
      [] place = "comparison" -> "PENDOWN\nIF EQ \"1 " \o literal \o " [ PENUP ]\n"
      [] place = "argument"   -> "P :y " \o literal \o "\n"
      [] place = "block"      -> "REPEAT \"1 [ MAKE \"x " \o literal \o " ]\nPENDOWN\n"
IntegerBlock(place, n) ==
    CASE place = "make"       -> <<Make("x", IntegerLiteral(n))>>
      [] place = "comparison" ->
            <<PenDown, If(Binary("Equals", IntegerLiteral(1), IntegerLiteral(n)),
                          <<PenUp>>)>>
      [] place = "argument"   ->
            <<ProcedureCall("P", <<VariableReference("y"), IntegerLiteral(n)>>)>>
      [] place = "block"      ->
            <<Repeat(IntegerLiteral(1), <<Make("x", IntegerLiteral(n))>>), PenDown>>
IntegerCases ==
    { [text |-> IntegerText(place, sample.literal), fits |-> sample.fits,
       block |-> IntegerBlock(place, sample.value)] :
        place \in IntegerPlaces, sample \in IntegerSamples }
IntegerTexts == { case.text : case \in IntegerCases }

\* a binary operation in prefix form as the value of a MAKE or the distance
\* of a FORWARD: every operator token, operands of every terminal form and
\* one nested operation, and the whitespace between them; the last two
\* gaps leave out the whitespace after the token or between the operands
PrefixOperands ==
    { [text |-> "\"1", expr |-> IntegerLiteral(1)],
      [text |-> "\"-5", expr |-> IntegerLiteral(-5)],
      [text |-> ":x", expr |-> VariableReference("x")],
      [text |-> "XCOR", expr |-> QueryXCor],
      [text |-> "- \"7 \"-2",
       expr |-> Binary("Subtraction", IntegerLiteral(7), IntegerLiteral(-2))] }
PrefixGaps ==
    { [first |-> " ", second |-> " "], [first |-> "  ", second |-> "\t"],
      [first |-> "", second |-> " "], [first |-> " ", second |-> ""] }
PrefixPlaces == {"make", "forward"}
PrefixText(place, operator, gap, left, right) ==
    (IF place = "make" THEN "MAKE \"a " ELSE "FORWARD ")
        \o operator.token \o gap.first \o left.text \o gap.second \o right.text \o "\n"
PrefixBlock(place, expr) ==
    IF place = "make" THEN <<Make("a", expr)>> ELSE <<Forward(expr)>>
PrefixCases ==
    { [text |-> PrefixText(place, BinaryOperators[k], gap, left, right),
       spaced |-> gap.first # "" /\ gap.second # "",
       place |-> place,
       block |-> PrefixBlock(place, Binary(BinaryOperators[k].tag, left.expr, right.expr))] :
        place \in PrefixPlaces, k \in DOMAIN BinaryOperators, gap \in PrefixGaps,
        left \in PrefixOperands, right \in PrefixOperands }
TerminalTexts == {"MAKE \"a \"-5\n", "FORWARD \"-5\n"}
PrefixTexts == { case.text : case \in PrefixCases } \cup TerminalTexts

\* a line whose leading identifier begins with a keyword and goes on, with
\* the call the whole identifier names
KeywordPrefixCases ==
    { [text |-> "Leftover\n", call |-> ProcedureCall("Leftover", <<>>)],
      [text |-> "Iffy \"1\n", call |-> ProcedureCall("Iffy", <<IntegerLiteral(1)>>)],
      [text |-> "Penupx\n", call |-> ProcedureCall("Penupx", <<>>)],
      [text |-> "Forwardx \"1\n", call |-> ProcedureCall("Forwardx", <<IntegerLiteral(1)>>)],
      [text |-> "Makeup\n", call |-> ProcedureCall("Makeup", <<>>)],
      [text |-> "Repeater :x\n", call |-> ProcedureCall("Repeater", <<VariableReference("x")>>)],
      [text |-> "Tox\n", call |-> ProcedureCall("Tox", <<>>)],
      [text |-> "Square \"1\n", call |-> ProcedureCall("Square", <<IntegerLiteral(1)>>)] }
KeywordPrefixTexts == { case.text : case \in KeywordPrefixCases }

Texts ==
    WholeTexts \cup CommentTexts \cup FragmentTexts \cup PenArgumentTexts
        \cup KeywordTexts \cup UnstructuredTexts \cup DefinitionTexts
        \cup OperatorTexts \cup IntegerTexts \cup PrefixTexts \cup KeywordPrefixTexts

\* the state of main before it calls parse_program
InitParse ==
    /\ content \in Texts
    /\ ast = <<>>
    /\ turtle = TurtleNew(ImageSize, ImageSize)
    /\ stack = <<>>
    /\ procedures = <<>>
    /\ ctl = <<>>
    /\ status = "parsing"
    /\ error = ""
    /\ rendered = 0
    /\ overflow_checks \in BOOLEAN
    /\ last = [op |-> "init", stmt |-> NoStmt, value |-> NoValue, pre |-> Pre,
               depth |-> 0]

NextParse == ParseProgram \/ Next
SpecParse == InitParse /\ [][NextParse]_vars

\* the runs of the Division and Modulo programs
InitArith == InitWith(ArithPrograms)
NextArith == ExecMake \/ BlockEnd \/ Finish
SpecArith == InitArith /\ [][NextArith]_vars

(***************************************************************************)
(* Properties of the evaluator.                                            *)
(***************************************************************************)
Executed(kind) == last.op = "statement" /\ last.stmt.stmt = kind

\* the positions of the entries of a name, and the most recently pushed one
Bindings(stk, name) == {i \in 1..Len(stk) : stk[i].name = name}
MostRecent(stk, name) ==
    CHOOSE i \in Bindings(stk, name) : \A j \in Bindings(stk, name) : j <= i

\* n is the sum of v and w (the sum of two i32 is an i32 only when the
\* addition does not overflow)
IsSum(n, v, w) == ~AddOverflows(v, w) /\ n = v + w

\* stk is old with the value of position m replaced by Integer n and nothing
\* else changed
ReplacedAt(stk, old, m, n) ==
    /\ Len(stk) = Len(old)
    /\ \A i \in 1..Len(old) :
          /\ stk[i].name = old[i].name
          /\ i # m => stk[i].value = old[i].value
    /\ stk[m].value.value_type = "integer"
    /\ stk[m].value.integer_value = n

\* an AddAssign was executed on a name bound to an Integer with an
\* expression that evaluated to an Integer
AddAssignOnIntegers ==
    /\ Executed("AddAssign")
    /\ last.value.value_type = "integer"
    /\ Bindings(last.pre.stack, last.stmt.id) # {}
    /\ last.pre.stack[MostRecent(last.pre.stack, last.stmt.id)].value.value_type
          = "integer"

AddAssignOld ==
    last.pre.stack[MostRecent(last.pre.stack, last.stmt.id)].value.integer_value

\* C4 as stated: AddAssign on an Integer binding v with an Integer w replaces
\* the value of the most recent binding of the name by v + w and changes
\* nothing else of the stack, whatever v and w are.
C4_AddAssignInPlaceAnySum ==
    AddAssignOnIntegers =>
        /\ status = "running"
        /\ Len(stack) = Len(last.pre.stack)
        /\ IsSum(stack[MostRecent(last.pre.stack, last.stmt.id)].value.integer_value,
                 AddAssignOld, last.value.integer_value)

\* C4 amended: when v + w fits a 32-bit signed integer, AddAssign replaces
\* the value of the most recently pushed binding of the name by v + w,
\* leaves every other entry unchanged and does not change the stack length.
C4_AddAssignInPlace ==
    (AddAssignOnIntegers /\ ~AddOverflows(AddAssignOld, last.value.integer_value)) =>
        /\ status = "running"
        /\ ReplacedAt(stack, last.pre.stack,
                      MostRecent(last.pre.stack, last.stmt.id),
                      AddAssignOld + last.value.integer_value)

\* an AddAssign updated a binding that is neither the only one of its name
\* nor the top of the stack
C4_Witness ==
    /\ AddAssignOnIntegers
    /\ status = "running"
    /\ Cardinality(Bindings(last.pre.stack, last.stmt.id)) >= 2
    /\ MostRecent(last.pre.stack, last.stmt.id) < Len(last.pre.stack)
    /\ last.value.integer_value # 0

\* C5: a Make that completes leaves the stack one entry longer: the earlier
\* entries unchanged, with the new (name, value) entry on top.
C5_MakePushes ==
    (Executed("Make") /\ status = "running") =>
        /\ Len(stack) = Len(last.pre.stack) + 1
        /\ SubSeq(stack, 1, Len(last.pre.stack)) = last.pre.stack
        /\ stack[Len(stack)] =
              [name |-> last.stmt.id,
               value |-> evaluate_expression(last.stmt.expr, last.pre.stack,
                                             last.pre.turtle)]

\* a Make of a name that already had a binding
C5_Witness ==
    /\ Executed("Make")
    /\ status = "running"
    /\ Bindings(last.pre.stack, last.stmt.id) # {}

\* the statements with an operand expression
OperandStmts ==
    MotionStmts \cup SetterStmts \cup {"Make", "AddAssign", "If", "Repeat"}

\* the statement just executed had the bare variable reference :name as operand
ReadVariable ==
    /\ last.op = "statement"
    /\ last.stmt.stmt \in OperandStmts
    /\ last.stmt.expr.tag = "VariableReference"

\* C6: a read of a name yields the value of the most recently pushed entry
\* of that name on the stack, and is the fatal error "variable not found"
\* when the stack has no entry of that name; the same holds of the current
\* value AddAssign reads.
C6_ReadsMostRecentBinding ==
    /\ ReadVariable =>
          IF Bindings(last.pre.stack, last.stmt.expr.name) = {}
          THEN status = "exited" /\ error = "variable not found"
          ELSE last.value =
                 last.pre.stack[MostRecent(last.pre.stack, last.stmt.expr.name)].value
    /\ (Executed("AddAssign") /\ ~IsFatal(last.value)) =>
          IF Bindings(last.pre.stack, last.stmt.id) = {}
          THEN status = "exited" /\ error = "variable not found"
          ELSE status = "running" =>
                 LET m == MostRecent(last.pre.stack, last.stmt.id) IN
                 stack[m].value = add_i32(last.pre.stack[m].value.integer_value,
                                          last.value.integer_value)

\* inside a procedure body, with newer entries on the stack, a read found a
\* binding of the caller
C6_Witness ==
    /\ ReadVariable
    /\ status = "running"
    /\ \E k \in 1..Len(ctl) :
          /\ ctl[k].kind = "call"
          /\ Len(last.pre.stack) > Len(ctl[k].caller_stack)
          /\ Bindings(ctl[k].caller_stack, last.stmt.expr.name) # {}
          /\ MostRecent(last.pre.stack, last.stmt.expr.name) <= Len(ctl[k].caller_stack)

\* C7: a call of a name that is not in the procedure table is the fatal
\* error "procedure not found"; a call whose argument count differs from the
\* parameter count is a fatal error; in both cases the scope stack and the
\* turtle are as they were before the call.
C7_CallChecks ==
    Executed("ProcedureCall") =>
        /\ last.stmt.name \notin DOMAIN last.pre.procedures =>
              /\ status = "exited" /\ error = "procedure not found"
              /\ stack = last.pre.stack /\ turtle = last.pre.turtle
        /\ (/\ last.stmt.name \in DOMAIN last.pre.procedures
            /\ Len(last.pre.procedures[last.stmt.name].parameters)
                  # Len(last.stmt.arguments)) =>
              /\ status = "exited" /\ error = "argument count mismatch"
              /\ stack = last.pre.stack /\ turtle = last.pre.turtle

\* a call with the wrong argument count, one of whose arguments could be
\* bound and another of whose arguments cannot be evaluated
C7_Witness ==
    /\ Executed("ProcedureCall")
    /\ error = "argument count mismatch"
    /\ \E i \in 1..Len(last.stmt.arguments) :
          IsFatal(evaluate_expression(last.stmt.arguments[i], last.pre.stack,
                                      last.pre.turtle))
    /\ \E i \in 1..Len(last.stmt.arguments) :
          ~IsFatal(evaluate_expression(last.stmt.arguments[i], last.pre.stack,
                                       last.pre.turtle))

\* the value of the count expression of the Repeat when the loop was entered
RepeatCount ==
    evaluate_expression(last.stmt.expr, last.entry.stack, last.entry.turtle).integer_value

\* C10: the body of a Repeat is executed max(n, 0) times, n being the value
\* of the count expression when the Repeat was entered; for n <= 0 the
\* turtle is where it was.
C10_RepeatCountOnce ==
    /\ last.op = "repeat_iteration" => last.iterations < RepeatCount
    /\ last.op = "repeat_end" =>
          /\ last.iterations = (IF RepeatCount > 0 THEN RepeatCount ELSE 0)
          /\ RepeatCount <= 0 =>
                /\ turtle.x = last.entry.turtle.x
                /\ turtle.y = last.entry.turtle.y

\* a Repeat ended after its body changed the value of its count expression
C10_Witness ==
    /\ last.op = "repeat_end"
    /\ last.iterations >= 2
    /\ evaluate_expression(last.stmt.expr, stack, turtle) # IntegerValue(RepeatCount)

\* a Repeat with a negative count ended
C10_WitnessNone ==
    /\ last.op = "repeat_end"
    /\ RepeatCount < 0

\* a Make of a Division or Modulo whose operands both evaluated
LeftValue == evaluate_expression(last.stmt.expr.lhs, last.pre.stack, last.pre.turtle)
RightValue == evaluate_expression(last.stmt.expr.rhs, last.pre.stack, last.pre.turtle)
DivisionEvaluated ==
    /\ Executed("Make")
    /\ last.stmt.expr.tag \in {"Division", "Modulo"}
    /\ ~IsFatal(LeftValue) /\ ~IsFatal(RightValue)

\* C8: a Division or Modulo with an operand that is not an Integer ends in
\* the error "type mismatch", also when the right operand is 0; with two
\* Integer operands and the right one 0 it ends in "division by zero".
C8_DivisionByZero ==
    DivisionEvaluated =>
        /\ (LeftValue.value_type # "integer" \/ RightValue.value_type # "integer") =>
              status = "exited" /\ error = "type mismatch"
        /\ (/\ LeftValue.value_type = "integer" /\ RightValue.value_type = "integer"
            /\ RightValue.integer_value = 0) =>
              status = "exited" /\ error = "division by zero"

\* a String divided by Integer 0
C8_Witness ==
    /\ DivisionEvaluated
    /\ LeftValue.value_type = "string"
    /\ RightValue = IntegerValue(0)
    /\ error = "type mismatch"

\* the smallest Integer divided by Integer 0
C8_WitnessZero ==
    /\ DivisionEvaluated
    /\ LeftValue = IntegerValue(MinI32)
    /\ RightValue = IntegerValue(0)
    /\ error = "division by zero"

\* |r| < |b|
SmallerThan(r, b) ==
    LET nb == IF b < 0 THEN b ELSE -b IN r > nb /\ (r <= 0 \/ -r > nb)

\* b divides n
Divides(b, n) == IF b = MinI32 THEN n \in {0, MinI32} ELSE n % Abs(b) = 0

\* r is the remainder of a by b with the sign of the dividend
IsRemainder(r, a, b) ==
    /\ SmallerThan(r, b)
    /\ r = 0 \/ (r > 0) = (a > 0)
    /\ Divides(b, a - r)

\* q is the quotient of a by b truncated toward zero
IsTruncatedQuotient(q, a, b) ==
    /\ ~MulOverflows(q, b)
    /\ ~SubOverflows(a, q * b)
    /\ IsRemainder(a - q * b, a, b)

\* a Make of a Division or Modulo of two integer literals, the right one not 0
DivisionOfIntegers ==
    /\ Executed("Make")
    /\ last.stmt.expr.tag \in {"Division", "Modulo"}
    /\ last.stmt.expr.lhs.tag = "IntegerLiteral"
    /\ last.stmt.expr.rhs.tag = "IntegerLiteral"
    /\ last.stmt.expr.rhs.int # 0

DivisionResultCorrect ==
    /\ status = "running"
    /\ last.value.value_type = "integer"
    /\ IF last.stmt.expr.tag = "Division"
       THEN IsTruncatedQuotient(last.value.integer_value,
                                last.stmt.expr.lhs.int, last.stmt.expr.rhs.int)
       ELSE IsRemainder(last.value.integer_value,
                        last.stmt.expr.lhs.int, last.stmt.expr.rhs.int)

\* C9 as stated: for all i32 a and b with b # 0, the pair (MinI32, -1)
\* included, Division yields the truncated quotient and Modulo the remainder
\* with the sign of the dividend, as an Integer value.
C9_DivModEveryPair == DivisionOfIntegers => DivisionResultCorrect

\* C9 amended: for all i32 a and b with b # 0 other than the pair
\* a = -2147483648, b = -1, Division yields the quotient truncated toward
\* zero and Modulo the remainder with the sign of the dividend, as an
\* Integer value.
C9_DivModTruncates ==
    (/\ DivisionOfIntegers
     /\ ~(last.stmt.expr.lhs.int = MinI32 /\ last.stmt.expr.rhs.int = -1)) =>
        DivisionResultCorrect

\* a negative dividend that the divisor does not divide
C9_Witness ==
    /\ DivisionOfIntegers
    /\ status = "running"
    /\ last.stmt.expr.tag = "Division"
    /\ last.stmt.expr.lhs.int = MinI32 + 1
    /\ last.stmt.expr.rhs.int = 2
    /\ last.value = IntegerValue(-1073741823)

\* the boundary pair ends in a panic
C9_WitnessBoundary ==
    /\ DivisionOfIntegers
    /\ last.stmt.expr.lhs.int = MinI32 /\ last.stmt.expr.rhs.int = -1
    /\ status = "panicked"

(***************************************************************************)
(* Procedure calls and the scope of their parameters.                      *)
(***************************************************************************)
\* the block does not bind or update the name
LeavesAlone(block, name) ==
    \A i \in 1..Len(block) :
        ~(block[i].stmt \in {"Make", "AddAssign"} /\ block[i].id = name)

\* the program binds x to 1 at top level, calls P, whose only parameter is x
\* and whose body does not bind or update x, with an argument that evaluates
\* to 2, and reads x after the call
ShadowingProgram ==
    /\ Len(ast) = 5
    /\ ast[2].stmt = "ProcedureDefinition" /\ ast[2].name = "P"
    /\ ast[2].parameters = <<StringLiteral("x")>>
    /\ LeavesAlone(ast[2].body, "x")
    /\ ast[3] = Make("x", Lit(1))
    /\ ast[4] = ProcedureCall("P", <<Lit(2)>>)
    /\ ast[5] = Forward(X)

\* the read of x just made by the body of P itself
ReadInBody ==
    /\ Executed("Forward") /\ last.stmt = Forward(X)
    /\ Len(ctl) = 3 /\ ctl[2].kind = "call" /\ ctl[2].stmt = ast[4]

\* the read of x just made at top level after the call returned
ReadAfterCall ==
    /\ Executed("Forward") /\ last.stmt = Forward(X)
    /\ Len(ctl) = 1 /\ ctl[1].pc = 6

\* C1: in such a program every read of x in the body yields 2, and the read
\* of x after the call has returned yields 1.
C1_ScopeShadowing ==
    ShadowingProgram =>
        /\ ReadInBody => last.value = IntegerValue(2)
        /\ ReadAfterCall => last.value = IntegerValue(1)

\* C2: when a call returns, every binding of the caller is where it was and,
\* if the call pushed parameters, nothing of it is left on the stack.
C2_CallerScopeRestored ==
    last.op = "return" =>
        /\ Len(stack) >= Len(last.caller_stack)
        /\ \A i \in 1..Len(last.caller_stack) :
              stack[i].name = last.caller_stack[i].name
        /\ Len(last.stmt.arguments) > 0 => Len(stack) <= Len(last.caller_stack)

\* C3: every parameter of a call is bound to the value its argument has on
\* the stack of the caller, as it was before the call pushed anything.
C3_ArgumentsInCallerScope ==
    (Executed("ProcedureCall") /\ status = "running") =>
        \A i \in 1..Len(last.stmt.arguments) :
            stack[Len(last.pre.stack) + i].value =
                evaluate_expression(last.stmt.arguments[i], last.pre.stack,
                                    last.pre.turtle)

(***************************************************************************)
(* While and If.                                                           *)
(***************************************************************************)
WhileTested == last.op \in {"while_iteration", "while_end", "while_fatal"}

\* C11: every test of a While evaluates the condition on the program state
\* of that moment; a non-zero Integer starts the body once more and keeps
\* the loop; the first test that yields 0 leaves the loop with no further
\* body, after one body per earlier test; a condition that is 0 when the
\* loop is entered leaves it with no body executed.
C11_WhileReevaluates ==
    WhileTested =>
        /\ last.value = evaluate_expression(last.stmt.expr, stack, turtle)
        /\ stack = last.pre.stack /\ turtle = last.pre.turtle
        /\ (last.value.value_type = "integer" /\ last.value.integer_value # 0) =>
              /\ last.op = "while_iteration"
              /\ status = "running"
              /\ Len(ctl) = last.depth + 1
              /\ Top = BlockFrame(last.stmt.block)
              /\ ctl[last.depth].kind = "while"
              /\ ctl[last.depth].iterations = last.iterations + 1
        /\ last.value = IntegerValue(0) =>
              /\ last.op = "while_end"
              /\ status = "running"
              /\ Len(ctl) = last.depth - 1
        /\ evaluate_expression(last.stmt.expr, last.entry.stack, last.entry.turtle)
              = IntegerValue(0) =>
              /\ last.op = "while_end"
              /\ last.iterations = 0
              /\ stack = last.entry.stack /\ turtle = last.entry.turtle

\* a While left at a test that yielded 0, after two bodies started by tests
\* that yielded negative Integers on a state the body had changed
C11_Witness ==
    /\ last.op = "while_end"
    /\ last.iterations = 2
    /\ evaluate_expression(last.stmt.expr, last.entry.stack, last.entry.turtle)
          = IntegerValue(-2)
    /\ stack # last.entry.stack

\* a While whose condition is 0 when the loop is entered
C11_WitnessNone ==
    /\ last.op = "while_end"
    /\ last.iterations = 0

\* the If just executed had a condition that evaluated to a value
IfEvaluated == Executed("If") /\ ~IsFatal(last.value)

C12_WitnessString ==
    /\ IfEvaluated
    /\ last.value.value_type = "string"
    /\ last.stmt.block # <<>>
    /\ status = "panicked"

\* an If on Integer 0 skipped a block that is not empty
C12_WitnessZero ==
    /\ IfEvaluated
    /\ last.value = IntegerValue(0)
    /\ last.stmt.block # <<>>
    /\ status = "running"

(***************************************************************************)
(* Motion and setter statements.                                           *)
(***************************************************************************)
\* C13: a motion or setter statement whose operand evaluates to a String
\* ends the run fatally, and the turtle is as it was: the turtle operation
\* is not invoked.
C13_StringOperandFatal ==
    (/\ last.op = "statement"
     /\ last.stmt.stmt \in MotionStmts \cup SetterStmts
     /\ last.value.value_type = "string") =>
        /\ status \in {"exited", "panicked"}
        /\ turtle = last.pre.turtle

\* a motion or setter statement read a variable that Make bound to a String
C13_Witness ==
    /\ last.op = "statement"
    /\ last.stmt.stmt \in MotionStmts \cup SetterStmts
    /\ last.stmt.expr.tag = "VariableReference"
    /\ last.value = StringValue("abc")
    /\ status = "panicked"

(***************************************************************************)
(* Binary expressions.                                                     *)
(***************************************************************************)
LogicalTags == {"And", "Or", "Equals", "NotEquals", "GreaterThan", "LessThan"}

\* a Make of one binary expression was executed
BinaryEvaluated == Executed("Make") /\ last.stmt.expr.tag \in BinaryTags

\* the run ended with the fatal outcome f
EndedWith(f) ==
    /\ status = (IF f.how = "exit" THEN "exited" ELSE "panicked")
    /\ error = f.error

\* C14: a binary expression evaluates its left operand, then its right
\* operand, whatever the left one yielded: a failure of the left operand
\* ends the run, else a failure of the right operand ends it; with both
\* evaluated and one of them not an Integer the run exits with "type
\* mismatch"; a comparison or logical operator on two Integers yields
\* Integer 1 or Integer 0.
C14_BinaryOperands ==
    BinaryEvaluated =>
        /\ IsFatal(LeftValue) => EndedWith(LeftValue)
        /\ (~IsFatal(LeftValue) /\ IsFatal(RightValue)) => EndedWith(RightValue)
        /\ (/\ ~IsFatal(LeftValue) /\ ~IsFatal(RightValue)
            /\ (LeftValue.value_type # "integer"
                   \/ RightValue.value_type # "integer")) =>
              status = "exited" /\ error = "type mismatch"
        /\ (/\ ~IsFatal(LeftValue) /\ ~IsFatal(RightValue)
            /\ LeftValue.value_type = "integer"
            /\ RightValue.value_type = "integer"
            /\ last.stmt.expr.tag \in LogicalTags) =>
              /\ status = "running"
              /\ last.value \in {IntegerValue(0), IntegerValue(1)}
              /\ stack[Len(stack)].value = last.value

\* an And whose left operand is 0 failed on its right operand
C14_Witness ==
    /\ BinaryEvaluated
    /\ last.stmt.expr.tag = "And"
    /\ LeftValue = IntegerValue(0)
    /\ IsFatal(RightValue)
    /\ error = "variable not found"

\* an Or whose left operand is non-zero met a String on its right
C14_WitnessMismatch ==
    /\ BinaryEvaluated
    /\ last.stmt.expr.tag = "Or"
    /\ LeftValue = IntegerValue(1)
    /\ RightValue.value_type = "string"
    /\ error = "type mismatch"

\* a comparison of two Integers yielded 1
C14_WitnessTruth ==
    /\ BinaryEvaluated
    /\ last.stmt.expr.tag = "GreaterThan"
    /\ last.value = IntegerValue(1)

\* both operands fail, each in its own way: the failure of the left one is
\* the one that ends the run
C14_WitnessOrder ==
    /\ BinaryEvaluated
    /\ IsFatal(LeftValue) /\ IsFatal(RightValue)
    /\ LeftValue # RightValue

(***************************************************************************)
(* Properties of the parser.                                               *)
(***************************************************************************)
\* parse_program has returned a Block to main
BlockReturned == last.op = "parse" /\ status = "running"

\* parse_program has ended the process with a diagnostic
ParseExited(message) ==
    last.op = "parse" /\ status = "exited" /\ error = message

\* C15: parse_program returns a Block only when the whole input was consumed
\* by statements, comments and whitespace; when the statement/comment loop
\* stops before the end of the input, the parse ends in the fatal syntax
\* error and no Block is returned.
C15_WholeInputConsumed ==
    /\ BlockReturned => trim(last.remaining) = ""
    /\ (last.op = "parse" /\ trim(last.remaining) # "") =>
           ParseExited("syntax error")

\* C16: a keyword that takes no argument (PENUP, PENDOWN) followed by one
\* argument on the same line, as in `PENUP 1`, fails with the arity error,
\* and it fails in the parser: no statement is evaluated and no turtle
\* operation, penup included, is invoked.
C16_ZeroArgumentArity ==
    (content \in PenArgumentTexts /\ status # "parsing") =>
        /\ ParseExited("incorrect argument count")
        /\ turtle = last.pre.turtle

\* comment lines that hold the text of a statement
CommentLines == {"// PENUP\n", "//FORWARD \"abc\r\n", "//\n"}

\* C17: a program of `//` line comments and whitespace only, in any number
\* and order, parses to the empty Block, and comments contribute no
\* Statement: a comment line put before a program leaves its Block as it is.
C17_CommentsOnly ==
    /\ (content \in CommentTexts /\ status # "parsing") =>
           /\ ast = <<>>
           /\ status \in {"running", "finished"}
           /\ error = ""
    /\ BlockReturned =>
           \A line \in CommentLines : parse_program(line \o content).value = ast

\* three comments, two of them with the text of a statement, and a blank
\* line were parsed
C17_Witness ==
    /\ content = "// PENUP\n\n//FORWARD \"abc\r\n"
    /\ BlockReturned
    /\ ast = <<>>
    /\ last.remaining = ""

\* a program with statements after a comment was parsed
C17_WitnessStatements ==
    /\ content = "// a square\nPENDOWN\nREPEAT \"4 [\n  FORWARD \"10\n  LEFT \"90\n]\nPENUP\n"
    /\ BlockReturned
    /\ Len(ast) = 3

\* C18: a line of a motion, setter or control keyword with a number of
\* expression arguments other than one, or with a string literal as its one
\* argument, and a line of MAKE or ADDASSIGN with a number of arguments other
\* than two, ends the process in the parser with the arity or the type
\* diagnostic: no Block is returned and no statement, not even one of an
\* earlier line, is evaluated.
C18_EagerValidation ==
    /\ (content \in CountRejectedTexts /\ status # "parsing") =>
           /\ ParseExited("incorrect argument count")
           /\ ast = <<>>
           /\ turtle = last.pre.turtle
    /\ (content \in TypeRejectedTexts /\ status # "parsing") =>
           /\ ParseExited("incorrect argument type")
           /\ ast = <<>>
           /\ turtle = last.pre.turtle

\* a REPEAT with two counts before its block, after a PENDOWN line, was
\* rejected for its argument count and the pen is still up
C18_Witness ==
    /\ content = "PENDOWN\nREPEAT \"10 :x [ PENUP ]\n"
    /\ ParseExited("incorrect argument count")
    /\ ~turtle.pen_down

\* a setter with a string literal was rejected for its argument type
C18_WitnessType ==
    /\ content = "SETPENCOLOR \"abc\n"
    /\ ParseExited("incorrect argument type")

\* a MAKE with one argument and one with three were rejected
C18_WitnessMake ==
    /\ content \in {"MAKE \"abc\n", "MAKE \"abc \"10 :x\n"}
    /\ ParseExited("incorrect argument count")

\* lines with the expected arguments were parsed to their statements
C18_WitnessAccepted ==
    /\ content \in AcceptedTexts
    /\ BlockReturned
    /\ ast # <<>>
    /\ ast[Len(ast)].stmt \in {"Make", "While", "SetX"}

\* the reserved keywords
KeywordSet == { Keywords[k] : k \in DOMAIN Keywords }

\* the statements of a Block that are calls of a procedure named as a keyword
KeywordCalls(block) ==
    { i \in DOMAIN block :
        /\ block[i].stmt = "ProcedureCall"
        /\ to_lowercase(block[i].name) \in KeywordSet }

\* C19: a statement whose leading word is a reserved keyword is never turned
\* into a ProcedureCall; when the structure of its keyword does not match,
\* the parse fails with the syntax error.
C19_KeywordNeverCalled ==
    /\ KeywordCalls(ast) = {}
    /\ (content \in UnstructuredTexts /\ status # "parsing") =>
           ParseExited("syntax error")

\* C20: the statement keywords, TO and END included, are recognised in any
\* letter case: a definition closed by `end` or `End` parses to the same
\* ProcedureDefinition as one closed by `END`; the operator tokens EQ, NE,
\* GT, LT, AND, OR are recognised in upper case only.
C20_KeywordCase ==
    /\ \A opener \in DefinitionOpeners, closer \in DefinitionClosers :
          (content = DefinitionText(opener, closer, "\n") /\ status # "parsing") =>
              ast = <<ProcedureDefinition("P", <<>>, <<[stmt |-> "PenUp"]>>)>>
    /\ \A operator \in UpperOperators :
          (content = OperatorText(operator) /\ status # "parsing") =>
              /\ Len(ast) = 1
              /\ ast[1].stmt = "Make"
              /\ ast[1].expr.tag \in LogicalTags
    /\ \A operator \in LowerOperators :
          (content = OperatorText(operator) /\ status # "parsing") =>
              ~(\E i \in DOMAIN ast : ast[i].stmt = "Make")

\* C21: an integer literal whose digits do not fit a 32-bit signed integer
\* ends the parse with the 'invalid integer' diagnostic, wherever the
\* literal stands: no alternative is tried after it and no Block is
\* returned; a literal that fits parses to IntegerLiteral of its value.
C21_IntegerLiteralRange ==
    \A case \in IntegerCases :
        (content = case.text /\ status # "parsing") =>
            IF case.fits
            THEN ast = case.block
            ELSE ParseExited("invalid integer") /\ ast = <<>>

\* the literal one above the largest i32, in a block, ended the parse
C21_Witness ==
    /\ content = IntegerText("block", "\"2147483648")
    /\ ParseExited("invalid integer")
    /\ ast = <<>>

\* the smallest i32 was parsed as the operand of a comparison
C21_WitnessFits ==
    /\ content = IntegerText("comparison", "\"-2147483648")
    /\ BlockReturned
    /\ ast[2].expr.rhs = IntegerLiteral(MinI32)

\* a parameter written as a quoted name or as a variable reference, and the
\* name it stands for
IsBareName(parameter) == parameter.tag \in {"StringLiteral", "VariableReference"}
BareName(parameter) ==
    IF parameter.tag = "StringLiteral" THEN parameter.str ELSE parameter.name

\* table is old with name mapped to entry and nothing else changed
InsertedInto(table, old, name, entry) ==
    /\ DOMAIN table = DOMAIN old \cup {name}
    /\ table[name] = entry
    /\ \A k \in DOMAIN old \ {name} : table[k] = old[k]

\* C22: executing a ProcedureDefinition whose parameters are quoted names or
\* variable references inserts (name -> (parameter names, body)) into the
\* procedure table, over an earlier definition of the name, runs no
\* statement of the body and leaves the scope stack and the turtle as they
\* were; a parameter that is no bare name is a fatal error.
C22_DefinitionInserts ==
    Executed("ProcedureDefinition") =>
        /\ stack = last.pre.stack
        /\ turtle = last.pre.turtle
        /\ IF \A i \in DOMAIN last.stmt.parameters :
                 IsBareName(last.stmt.parameters[i])
           THEN /\ status = "running"
                /\ InsertedInto(procedures, last.pre.procedures, last.stmt.name,
                                [parameters |->
                                     [i \in DOMAIN last.stmt.parameters |->
                                          BareName(last.stmt.parameters[i])],
                                 body |-> last.stmt.body])
                /\ Len(ctl) = last.depth
           ELSE /\ status = "exited"
                /\ procedures = last.pre.procedures

\* the program of scenario 3
SqText == "TO Sq \"size\nREPEAT :size [ FORWARD \"10 RIGHT \"90 ]\nEND\nSq \"4\n"

\* the turtle of scenario 3 after k calls of forward(10) and right(90), made
\* in turn from forward on: position and heading
SqTrace ==
    << <<0, 0, 0>>, <<0, -10, 0>>, <<0, -10, 90>>, <<10, -10, 90>>,
       <<10, -10, 180>>, <<10, 0, 180>>, <<10, 0, 270>>, <<0, 0, 270>>,
       <<0, 0, 0>> >>

\* the place of the for loop of the REPEAT among the activations, 0 when it
\* is not running
RepeatFrame ==
    IF \E j \in DOMAIN ctl : ctl[j].kind = "repeat"
    THEN CHOOSE j \in DOMAIN ctl : ctl[j].kind = "repeat"
    ELSE 0

\* the number of turtle calls the run of scenario 3 has made: two for each
\* iteration done, and those of the iteration in progress
SqCalls ==
    IF RepeatFrame # 0
    THEN IF RepeatFrame = Len(ctl)
         THEN 2 * ctl[RepeatFrame].i
         ELSE 2 * (ctl[RepeatFrame].i - 1) + (ctl[RepeatFrame + 1].pc - 1)
    ELSE IF ctl = <<>> THEN 8
    ELSE IF ctl[1].pc <= 2 THEN 0
    ELSE IF Len(ctl) >= 3 /\ ctl[3].pc = 1 THEN 0
    ELSE 8

\* C23: the run of scenario 3 calls forward(10) and right(90) in turn, four
\* times each, and ends with the image rendered and the turtle at its
\* starting heading: after k calls the turtle is where k calls in turn
\* would put it, the loop ends after 4 iterations, and no call has another
\* operand.
C23_SquareScenario ==
    (content = SqText /\ status # "parsing") =>
        /\ status \in {"running", "finished"}
        /\ SqCalls \in 0..8
        /\ <<turtle.x - ImageSize \div 2, turtle.y - ImageSize \div 2,
             turtle.heading>> = SqTrace[SqCalls + 1]
        /\ Executed("Forward") => last.value = IntegerValue(10)
        /\ Executed("Right") => last.value = IntegerValue(90)
        /\ last.op = "repeat_end" => last.iterations = 4
        /\ status = "finished" => SqCalls = 8 /\ rendered = 1

\* the run of scenario 3 has finished with the turtle at its starting
\* heading and the image rendered once
C23_Witness ==
    /\ content = SqText
    /\ status = "finished"
    /\ rendered = 1
    /\ turtle.heading = TurtleNew(ImageSize, ImageSize).heading
    /\ "Sq" \in DOMAIN procedures

\* the third forward(10) of scenario 3 was made at heading 180
C23_WitnessThird ==
    /\ content = SqText
    /\ Executed("Forward")
    /\ SqCalls = 5
    /\ last.pre.turtle.heading = 180

\* an AddAssign was executed whose expression evaluated to a value
AddAssignEvaluated == Executed("AddAssign") /\ ~IsFatal(last.value)

\* C24: AddAssign on a name bound nowhere in the stack fails with 'variable
\* not found'; on a name whose current value is a String, or with an
\* expression that evaluates to a String, it fails with the 'type mismatch'
\* diagnostic; in both cases the scope stack is left as it was.
C24_AddAssignTypes ==
    AddAssignEvaluated =>
        IF Bindings(last.pre.stack, last.stmt.id) = {}
        THEN /\ status = "exited"
             /\ error = "variable not found"
             /\ stack = last.pre.stack
        ELSE (\/ last.value.value_type = "string"
              \/ last.pre.stack[MostRecent(last.pre.stack, last.stmt.id)]
                     .value.value_type = "string") =>
                 /\ status = "exited"
                 /\ error = "type mismatch"
                 /\ stack = last.pre.stack

\* C25: a StringLiteral whose text is "true" or "false" in any letter case
\* evaluates to Integer 1 or Integer 0, every other StringLiteral evaluates
\* to the String of its text, and a reference to a variable that holds a
\* String yields the stored value as it is.
EqualsIgnoringCase(text, word) == to_lowercase(text) = word
ExpressionEvaluated == Executed("Make") \/ Executed("AddAssign")
StoredValue == last.pre.stack[MostRecent(last.pre.stack, last.stmt.expr.name)].value
C25_StringLiteralCoercion ==
    ExpressionEvaluated =>
        /\ last.stmt.expr.tag = "StringLiteral" =>
              last.value = IF EqualsIgnoringCase(last.stmt.expr.str, "true") THEN IntegerValue(1)
                           ELSE IF EqualsIgnoringCase(last.stmt.expr.str, "false") THEN IntegerValue(0)
                           ELSE StringValue(last.stmt.expr.str)
        /\ (/\ last.stmt.expr.tag = "VariableReference"
            /\ Bindings(last.pre.stack, last.stmt.expr.name) # {}
            /\ StoredValue # NoValue
            /\ StoredValue.value_type = "string") => last.value = StoredValue
C25_Witness ==
    /\ Executed("Make")
    /\ last.stmt.expr = StringLiteral("True")
    /\ last.value = IntegerValue(1)
    /\ stack[MostRecent(stack, last.stmt.id)].value = IntegerValue(1)
C25_WitnessFalse ==
    /\ Executed("Make")
    /\ last.stmt.expr = StringLiteral("FALSE")
    /\ last.value = IntegerValue(0)
C25_WitnessString ==
    /\ Executed("Make")
    /\ last.stmt.expr = StringLiteral("abc")
    /\ last.value = StringValue("abc")
C25_WitnessStored ==
    /\ ExpressionEvaluated
    /\ last.stmt.expr.tag = "VariableReference"
    /\ Bindings(last.pre.stack, last.stmt.expr.name) # {}
    /\ last.value = StringValue("abc")

\* C26: a binary operation written as operator token, whitespace, left
\* expression, whitespace, right expression parses to the variant of the
\* token with the left operand first; without whitespace after the token
\* or between the operands no Block is returned; `- ` begins a Subtraction
\* while `"-5` is the literal -5.
C26_PrefixOperators ==
    /\ \A case \in PrefixCases :
          (content = case.text /\ status # "parsing") =>
              IF case.spaced THEN ast = case.block ELSE ast = <<>>
    /\ (content = "MAKE \"a \"-5\n" /\ status # "parsing") =>
          ast = <<Make("a", IntegerLiteral(-5))>>
    /\ (content = "FORWARD \"-5\n" /\ status # "parsing") =>
          ast = <<Forward(IntegerLiteral(-5))>>

\* `- :x "-5` was parsed as the subtraction of the literal -5 from x
C26_Witness ==
    /\ content = "MAKE \"a -  :x\t\"-5\n"
    /\ BlockReturned
    /\ ast = <<Make("a", Binary("Subtraction", VariableReference("x"), IntegerLiteral(-5)))>>

\* the literal -5 alone was parsed as a terminal
C26_WitnessTerminal ==
    /\ content = "MAKE \"a \"-5\n"
    /\ BlockReturned
    /\ ast = <<Make("a", IntegerLiteral(-5))>>

\* C27: the evaluation of an expression changes nothing.  After the
\* condition of an If or a While, or the count of a Repeat, has been
\* evaluated to a value, the scope stack, the procedure table and the
\* turtle are as before; the operand of a turtle statement leaves the stack
\* and the procedures as they were, and the value of a Make or an AddAssign
\* leaves the turtle and the procedures as they were.
ConditionEvaluated ==
    \/ Executed("If")
    \/ Executed("Repeat")
    \/ last.op \in {"while_iteration", "while_end", "while_fatal"}
C27_WitnessWhile ==
    /\ last.op = "while_iteration"
    /\ last.iterations > 0
    /\ last.stmt.expr.tag \in BinaryTags
    /\ stack # last.entry.stack
    /\ stack = last.pre.stack

\* C28: the length of the scope stack is the number of Make statements
\* executed plus the number of parameters of the active calls.  The stack
\* is empty before the first statement, and every step of a run that goes
\* on changes the length by exactly: one more after a Make, the number of
\* parameters more after a call is entered, the same number fewer after it
\* returns, and no change after any other step.
ActiveParameters ==
    LET calls == {i \in DOMAIN ctl : ctl[i].kind = "call"}
        RECURSIVE Sum(_)
        Sum(S) == IF S = {} THEN 0
                  ELSE LET i == CHOOSE j \in S : TRUE
                       IN ctl[i].parameters_pushed + Sum(S \ {i})
    IN Sum(calls)
LengthChange ==
    IF Executed("Make") THEN 1
    ELSE IF Executed("ProcedureCall") THEN Len(last.pre.procedures[last.stmt.name].parameters)
    ELSE IF last.op = "return" THEN 0 - Len(last.pre.procedures[last.stmt.name].parameters)
    ELSE 0
C28_StackLength ==
    /\ last.op \in {"init", "parse"} => stack = <<>>
    /\ (status \in {"running", "finished"} /\ last.op \notin {"init", "parse"}) =>
          /\ Len(stack) = Len(last.pre.stack) + LengthChange
          /\ Len(stack) >= ActiveParameters

\* a call with two parameters returned after its body had executed a Make:
\* the stack is one longer than when the call was made
C28_Witness ==
    /\ last.op = "return"
    /\ Len(last.stmt.arguments) = 2
    /\ Len(stack) = Len(last.caller_stack) + 1
    /\ Len(stack) = Len(last.pre.stack) - 2

\* C29: a line whose leading identifier only begins with a keyword parses
\* to one ProcedureCall of the whole identifier: the arity check of the
\* keyword does not reject it and it is not split into the keyword
\* statement and a call of the rest of the word.
C29_KeywordsAreWholeWords ==
    \A case \in KeywordPrefixCases :
        (content = case.text /\ status # "parsing") =>
            /\ ~ParseExited("incorrect argument count")
            /\ ast = <<case.call>>

\* the statements of a block, those of nested blocks and bodies included
RECURSIVE StatementsOf(_)
StatementsOf(block) ==
    UNION { {block[i]} \cup
            (IF block[i].stmt \in {"If", "While", "Repeat"}
             THEN StatementsOf(block[i].block)
             ELSE IF block[i].stmt = "ProcedureDefinition"
             THEN StatementsOf(block[i].body)
             ELSE {}) : i \in DOMAIN block }
ContainsWhile(block) == \E s \in StatementsOf(block) : s.stmt = "While"
DefinitionsOf(block) == {s \in StatementsOf(block) : s.stmt = "ProcedureDefinition"}
CallsIn(block) ==
    {s.name : s \in {t \in StatementsOf(block) : t.stmt = "ProcedureCall"}}

\* n has a definition in the program whose body calls m
CallsDirectly(block, n, m) ==
    \E definition \in DefinitionsOf(block) :
        definition.name = n /\ m \in CallsIn(definition.body)

\* the names reached from the names of S by calls
RECURSIVE CalledFrom(_, _)
CalledFrom(block, S) ==
    LET more == S \cup {m \in CallsIn(block) : \E n \in S : CallsDirectly(block, n, m)}
    IN IF more = S THEN S ELSE CalledFrom(block, more)
IsRecursive(block) ==
    \E definition \in DefinitionsOf(block) :
        definition.name \in CalledFrom(block, CallsIn(definition.body))

Terminated == status \in {"finished", "exited", "panicked"}
Eligible == status = "running" /\ ~ContainsWhile(ast) /\ ~IsRecursive(ast)

\* C30: the evaluation of a program with no While and no procedure that
\* calls itself, directly or through others, ends: the top-level Block is
\* completed and the image rendered once, or a fatal error ends the process.
C30_Terminates ==
    /\ Eligible ~> Terminated
    /\ [](status = "finished" => rendered = 1)
    /\ [](status \in {"exited", "panicked"} => rendered = 0)

\* a program with definitions and calls, none recursive, has finished
C30_Witness ==
    /\ status = "finished"
    /\ rendered = 1
    /\ ~ContainsWhile(ast)
    /\ ~IsRecursive(ast)
    /\ DefinitionsOf(ast) # {}
    /\ last.pre.stack # <<>>
    /\ \E s \in StatementsOf(ast) : s.stmt = "ProcedureCall" /\ s.name = "Q"

\* a program with a Repeat and no While has finished
C30_WitnessRepeat ==
    /\ status = "finished"
    /\ rendered = 1
    /\ ~ContainsWhile(ast)
    /\ \E s \in StatementsOf(ast) : s.stmt = "Repeat"

\* a recursive program is still running at the depth up to which it is followed
C30_WitnessRecursive ==
    /\ status = "running"
    /\ IsRecursive(ast)
    /\ CallDepth = MaxCallDepth

====
